---- MODULE Spec2Model ----
(***************************************************************************)
(* Materialised-document store of aquadoggo (db/stores/document.rs).       *)
(*                                                                         *)
(* The three tables `documents`, `document_views`, `document_view_fields`  *)
(* are the state.  Every SQL statement of the store is one atomic step on  *)
(* the committed tables: the insertion helpers bind their statements to    *)
(* `pool` (a fresh auto-committing connection), never to the transaction   *)
(* handle returned by `self.pool.begin()`, so the transaction that         *)
(* `SqlStore::insert_document` opens contains no statement and its         *)
(* commit() and rollback() change no table.                                *)
(***************************************************************************)
EXTENDS Bags, FiniteSets, Integers, Sequences, TLC

\* ------------------------------------------------------------------ bounds
MaxCalls == 2          \* number of store calls started in one behaviour
MaxPieces == 3         \* pieces of a small blob handed to document_to_blob_data
MaxConnections == 2    \* largest pool the store is opened with

\* The tasks that run store calls.
Tasks == {1}

\* --------------------------------------------------------------- test data
\* Document ids are the ids of their create operations: the materialiser
\* folds a document from operations that are stored in operations_v1.
DocumentIds == {"c1", "c2"}
ViewIds == {"v1", "v2"}
SchemaIds == {"s1", "s2"}
Names == {"a", "b"}
\* "x" is an operation id that was never stored in operations_v1.
OperationIds == {"c1", "c2", "u1", "x"}

\* Blob documents and blob piece documents: every one has a single view, so
\* its document id, its view id and its create operation carry one name.
BlobIds == {"b1", "b2", "b3", "b4", "b5"}
PieceIds == {"p1", "p2", "p3"}
Blob == "blob_v1"
BlobPiece == "blob_piece_v1"

\* Rows of operations_v1 (owned by the operation store, read-only here).
operations_v1 ==
    { [operation_id |-> "c1", public_key |-> "k1"],
      [operation_id |-> "c2", public_key |-> "k2"],
      [operation_id |-> "u1", public_key |-> "k1"] }
        \cup { [operation_id |-> o, public_key |-> "k1"] : o \in PieceIds \cup BlobIds }

\* Rows of operation_fields_v1 of the blob operations. A piece's "data" is
\* the sequence of its bytes: "He", "l" and the empty string. A blob has an
\* integer "length" and the pinned relation list "pieces" of piece view ids.
blob_operation_fields ==
    { [operation_id |-> "p1", name |-> "data", list_index |-> 0, field_type |-> "str", value |-> <<72, 101>>],
      [operation_id |-> "p2", name |-> "data", list_index |-> 0, field_type |-> "str", value |-> <<108>>],
      [operation_id |-> "p3", name |-> "data", list_index |-> 0, field_type |-> "str", value |-> << >>],
      [operation_id |-> "b1", name |-> "length", list_index |-> 0, field_type |-> "int", value |-> 3],
      [operation_id |-> "b1", name |-> "pieces", list_index |-> 0, field_type |-> "pinned_relation_list", value |-> "p1"],
      [operation_id |-> "b1", name |-> "pieces", list_index |-> 1, field_type |-> "pinned_relation_list", value |-> "p2"],
      [operation_id |-> "b2", name |-> "length", list_index |-> 0, field_type |-> "int", value |-> 3],
      [operation_id |-> "b2", name |-> "pieces", list_index |-> 0, field_type |-> "pinned_relation_list", value |-> "p2"],
      [operation_id |-> "b2", name |-> "pieces", list_index |-> 1, field_type |-> "pinned_relation_list", value |-> "p1"],
      [operation_id |-> "b3", name |-> "length", list_index |-> 0, field_type |-> "int", value |-> 4],
      [operation_id |-> "b3", name |-> "pieces", list_index |-> 0, field_type |-> "pinned_relation_list", value |-> "p1"],
      [operation_id |-> "b3", name |-> "pieces", list_index |-> 1, field_type |-> "pinned_relation_list", value |-> "p2"],
      [operation_id |-> "b4", name |-> "length", list_index |-> 0, field_type |-> "int", value |-> -1],
      [operation_id |-> "b4", name |-> "pieces", list_index |-> 0, field_type |-> "pinned_relation_list", value |-> "p3"],
      [operation_id |-> "b5", name |-> "length", list_index |-> 0, field_type |-> "int", value |-> 0],
      [operation_id |-> "b5", name |-> "pieces", list_index |-> 0, field_type |-> "pinned_relation_list", value |-> "p3"] }

\* Rows of operation_fields_v1: field "a" is an integer, field "b" is a
\* relation list with one row per element, ordered by list_index.
operation_fields_v1 ==
    { [operation_id |-> "c1", name |-> "a", list_index |-> 0, field_type |-> "int", value |-> "1"],
      [operation_id |-> "c1", name |-> "b", list_index |-> 0, field_type |-> "relation_list", value |-> "p"],
      [operation_id |-> "c1", name |-> "b", list_index |-> 1, field_type |-> "relation_list", value |-> "q"],
      [operation_id |-> "c2", name |-> "a", list_index |-> 0, field_type |-> "int", value |-> "2"],
      [operation_id |-> "c2", name |-> "b", list_index |-> 0, field_type |-> "relation_list", value |-> "q"],
      [operation_id |-> "c2", name |-> "b", list_index |-> 1, field_type |-> "relation_list", value |-> "p"],
      [operation_id |-> "u1", name |-> "a", list_index |-> 0, field_type |-> "int", value |-> "3"],
      [operation_id |-> "u1", name |-> "b", list_index |-> 0, field_type |-> "relation_list", value |-> "q"] }
        \cup blob_operation_fields

OperationExists(op) == \E o \in operations_v1 : o.operation_id = op

VARIABLES
    documents,             \* set of rows of table documents
    document_views,        \* set of rows of table document_views
    document_view_fields,  \* bag of rows of table document_view_fields
    task,                  \* per task: the call it runs and the statement it is at
    calls,                 \* number of calls started
    hist,                  \* what the completed calls were (history variable)
    max_connections        \* size of the connection pool the store was opened with

vars == <<documents, document_views, document_view_fields, task, calls, hist,
          max_connections>>
tables == <<documents, document_views, document_view_fields>>

\* ------------------------------------------------------------------ inputs
\* A DocumentView's fields: one (name, DocumentViewValue.id()) pair per name.
\* The last one names an operation that is not stored.
FieldSets ==
    { { [name |-> "a", id |-> "c1"], [name |-> "b", id |-> "c1"] },
      { [name |-> "a", id |-> "u1"], [name |-> "b", id |-> "c2"] },
      { [name |-> "a", id |-> "u1"], [name |-> "b", id |-> "x"] } }

\* A p2panda Document as the store reads it: id(), view_id(), schema_id(),
\* is_deleted() and view() (None exactly when the document is deleted).
LiveDocuments ==
    [ id : DocumentIds, view_id : ViewIds, schema_id : SchemaIds,
      deleted : {FALSE}, has_view : {TRUE}, fields : FieldSets ]
DeletedDocuments ==
    [ id : DocumentIds, view_id : ViewIds, schema_id : SchemaIds,
      deleted : {TRUE}, has_view : {FALSE}, fields : {{}} ]
Documents == LiveDocuments \cup DeletedDocuments
NoDocument ==
    [ id |-> "-", view_id |-> "-", schema_id |-> "-",
      deleted |-> FALSE, has_view |-> FALSE, fields |-> {} ]

\* ------------------------------------------------------- table constraints
\* documents.document_id is the conflict target of the upsert.
HasDocument(docs, id) == \E r \in docs : r.document_id = id
\* Mutant: document_views has no key on document_view_id.
ViewIdTaken_never(views, view_id) == FALSE
\* document_views.document_view_id is the primary key.
ViewIdTaken(views, view_id) == \E r \in views : r.document_view_id = view_id
\* document_views.document_id references documents.
DocumentIdForeignKey(docs, document_id) == HasDocument(docs, document_id)
\* document_view_fields.operation_id references operations_v1.
OperationIdForeignKey(operation_id) == OperationExists(operation_id)

\* -------------------------------------------------------------- statements
\* Mutant: the upsert replaces the whole row, schema_id included.
UpsertDocument_replace(docs, d) ==
    { r \in docs : r.document_id # d.id }
        \cup { [ document_id |-> d.id, document_view_id |-> d.view_id,
                 schema_id |-> d.schema_id, is_deleted |-> d.deleted ] }

\* Mutant: ON CONFLICT DO NOTHING, the stored row is kept as it is.
UpsertDocument_ignore(docs, d) ==
    IF HasDocument(docs, d.id) THEN docs
    ELSE docs \cup { [ document_id |-> d.id, document_view_id |-> d.view_id,
                       schema_id |-> d.schema_id, is_deleted |-> d.deleted ] }

\* INSERT INTO documents ... ON CONFLICT(document_id) DO UPDATE SET
\* document_view_id = $2, is_deleted = $3
UpsertDocument(docs, d) ==
    IF HasDocument(docs, d.id)
    THEN { IF r.document_id = d.id
           THEN [r EXCEPT !.document_view_id = d.view_id, !.is_deleted = d.deleted]
           ELSE r : r \in docs }
    ELSE docs \cup { [ document_id |-> d.id, document_view_id |-> d.view_id,
                       schema_id |-> d.schema_id, is_deleted |-> d.deleted ] }

\* if !document.is_deleted() && document.view().is_some()
InsertsView(d) == ~d.deleted /\ d.has_view

\* .map_err(|e| DocumentStorageError::FatalStorageError(e.to_string())): every
\* sqlx error becomes this variant, carrying the text of the database error.
FatalStorageError(e) == [ kind |-> "FatalStorageError", message |-> e ]

\* INSERT INTO document_views (document_view_id, document_id, schema_id)
InsertViewOk(views, docs, d) ==
    /\ ~ViewIdTaken(views, d.view_id)
    /\ DocumentIdForeignKey(docs, d.id)
InsertViewError(views, d) ==
    FatalStorageError(IF ViewIdTaken(views, d.view_id)
                      THEN "UNIQUE constraint failed"
                      ELSE "FOREIGN KEY constraint failed")

\* Mutant: the document id and the view id are bound in the other order.
InsertView_swapped(views, d) ==
    views \cup { [ document_view_id |-> d.id, document_id |-> d.view_id,
                   schema_id |-> d.schema_id ] }

InsertView(views, d) ==
    views \cup { [ document_view_id |-> d.view_id, document_id |-> d.id,
                   schema_id |-> d.schema_id ] }

\* Mutant: the operation id and the field name are bound in the other order.
FieldRow_swapped(view_id, f) ==
    [ document_view_id |-> view_id, operation_id |-> f.name, name |-> f.id ]

\* INSERT INTO document_view_fields (document_view_id, operation_id, name):
\* one statement per (name, value) pair of the view.
FieldRow(view_id, f) ==
    [ document_view_id |-> view_id, operation_id |-> f.id, name |-> f.name ]
InsertFieldOk(f) == OperationIdForeignKey(f.id)
InsertFieldError(f) == FatalStorageError("FOREIGN KEY constraint failed")
InsertField(rows, view_id, f) == rows (+) SetToBag({FieldRow(view_id, f)})

\* ----------------------------------------------------------------- queries
\* Mutant: the WHERE clause lacks `AND documents.is_deleted = false`.
SelectDocumentRow_withDeleted(docs, id) ==
    LET keys == { o.public_key : o \in { q \in operations_v1 : q.operation_id = id } }
    IN  { [ document_id |-> r.document_id, document_view_id |-> r.document_view_id,
            schema_id |-> r.schema_id, public_key |-> k, is_deleted |-> r.is_deleted ] :
          r \in { q \in docs : q.document_id = id },
          k \in (IF keys = {} THEN {"NULL"} ELSE keys) }

\* SELECT ... FROM documents LEFT JOIN operations_v1 ON operation_id = $1
\* WHERE documents.document_id = $1 AND documents.is_deleted = false
SelectDocumentRow(docs, id) ==
    LET keys == { o.public_key : o \in { q \in operations_v1 : q.operation_id = id } }
    IN  { [ document_id |-> r.document_id, document_view_id |-> r.document_view_id,
            schema_id |-> r.schema_id, public_key |-> k, is_deleted |-> r.is_deleted ] :
          r \in { q \in docs : q.document_id = id /\ q.is_deleted = FALSE },
          k \in (IF keys = {} THEN {"NULL"} ELSE keys) }

\* A documents row joined with the operation whose id is its document id.
DocumentRowJoin(r) ==
    LET keys == { o.public_key : o \in { q \in operations_v1 : q.operation_id = r.document_id } }
    IN  { [ document_id |-> r.document_id, document_view_id |-> r.document_view_id,
            schema_id |-> r.schema_id, public_key |-> k, is_deleted |-> r.is_deleted ] :
          k \in (IF keys = {} THEN {"NULL"} ELSE keys) }

\* Mutant: the WHERE clause lacks `AND documents.is_deleted = false`.
SelectDocumentsBySchema_withDeleted(docs, schema_id) ==
    UNION { DocumentRowJoin(r) : r \in { q \in docs : q.schema_id = schema_id } }

\* SELECT ... FROM documents LEFT JOIN operations_v1 ON operation_id =
\* documents.document_id WHERE documents.schema_id = $1 AND
\* documents.is_deleted = false
SelectDocumentsBySchema(docs, schema_id) ==
    UNION { DocumentRowJoin(r) :
            r \in { q \in docs : q.schema_id = schema_id /\ q.is_deleted = FALSE } }

\* Mutant: the view id is looked up among the current views in documents.
SelectViewDocumentId_fromDocuments(views, view_id) ==
    { r.document_id : r \in { q \in documents : q.document_view_id = view_id } }

\* SELECT document_id FROM document_views WHERE document_view_id = $1
SelectViewDocumentId(views, view_id) ==
    { r.document_id : r \in { q \in views : q.document_view_id = view_id } }

\* Mutant: the join lacks `AND document_view_fields.name = operation_fields_v1.name`.
JoinedFields_anyName(r) ==
    { o \in operation_fields_v1 : o.operation_id = r.operation_id }

\* The rows of operation_fields_v1 a document_view_fields row joins with.
JoinedFields(r) ==
    { o \in operation_fields_v1 : o.operation_id = r.operation_id /\ o.name = r.name }

\* SELECT ... FROM document_view_fields LEFT JOIN operation_fields_v1 ON
\* operation_id, name WHERE document_view_id = $1: the bag of joined rows.
JoinRows(rows, id) ==
    LET mine == { r \in BagToSet(rows) : r.document_view_id = id }
        Joined(r) ==
            IF JoinedFields(r) = {}
            THEN { [ document_view_id |-> r.document_view_id,
                     operation_id |-> r.operation_id, name |-> r.name,
                     list_index |-> -1, field_type |-> "NULL", value |-> "NULL" ] }
            ELSE { [ document_view_id |-> r.document_view_id,
                     operation_id |-> r.operation_id, name |-> r.name,
                     list_index |-> o.list_index, field_type |-> o.field_type,
                     value |-> o.value ] : o \in JoinedFields(r) }
    IN  [ j \in UNION { Joined(r) : r \in mine } |->
            CopiesIn([ document_view_id |-> j.document_view_id,
                       operation_id |-> j.operation_id, name |-> j.name ], rows) ]

\* The bag B without one copy of row m.
RemoveOne(B, m) ==
    IF B[m] > 1 THEN [ B EXCEPT ![m] = @ - 1 ]
    ELSE [ r \in DOMAIN B \ {m} |-> B[r] ]

\* Mutant: ORDER BY list_index DESC.
RECURSIVE OrderByListIndex_desc(_)
OrderByListIndex_desc(B) ==
    IF DOMAIN B = {} THEN { << >> }
    ELSE UNION { { <<m>> \o s : s \in OrderByListIndex_desc(RemoveOne(B, m)) } :
                 m \in { r \in DOMAIN B :
                           \A q \in DOMAIN B : r.list_index >= q.list_index } }

\* ORDER BY operation_fields_v1.list_index ASC: every sequence of the rows
\* that ascends in list_index. The statement orders by nothing else, so the
\* mutual order of rows of equal list_index is the database's to choose.
RECURSIVE OrderByListIndex(_)
OrderByListIndex(B) ==
    IF DOMAIN B = {} THEN { << >> }
    ELSE UNION { { <<m>> \o s : s \in OrderByListIndex(RemoveOne(B, m)) } :
                 m \in { r \in DOMAIN B :
                           \A q \in DOMAIN B : r.list_index <= q.list_index } }

\* The sequences of rows the query can return for view `id`.
get_document_view_field_rows(rows, id) == OrderByListIndex(JoinRows(rows, id))

\* Row codec: the field rows of one view become a name -> (operation id,
\* value) mapping; every value is kept as its type and the sequence of its
\* elements in the order of the rows (one element for a scalar).
parse_document_view_field_rows(rows) ==
    LET keys == { <<rows[i].name, rows[i].operation_id>> : i \in DOMAIN rows }
        Of(k) == SelectSeq(rows, LAMBDA r : r.name = k[1] /\ r.operation_id = k[2])
    IN  { [ name |-> k[1], id |-> k[2],
            type |-> Of(k)[1].field_type,
            value |-> [ i \in DOMAIN Of(k) |-> Of(k)[i].value ] ] : k \in keys }

\* The mappings the rows of view `id` parse to, one for every order the
\* query can return them in.
ParsedFields(rows, id) ==
    { parse_document_view_field_rows(s) : s \in get_document_view_field_rows(rows, id) }

\* Rows of equal list_index belong to different fields, or are copies of one
\* row, so the order the database chose among them does not reach the parsed
\* mapping: every view parses to one mapping only.
RowOrderFree ==
    \A v \in { r.document_view_id : r \in BagToSet(document_view_fields) } :
        Cardinality(ParsedFields(document_view_fields, v)) = 1

\* The value the materialiser gives field `name` written by operation `op`.
OperationValue(op, name) ==
    LET R == { o \in operation_fields_v1 : o.operation_id = op /\ o.name = name }
    IN  [ i \in 1..Cardinality(R) |-> (CHOOSE o \in R : o.list_index = i - 1).value ]
OperationType(op, name) ==
    LET R == { o \in operation_fields_v1 : o.operation_id = op /\ o.name = name }
    IN  IF R = {} THEN "NULL" ELSE (CHOOSE o \in R : TRUE).field_type

\* The field mapping a document built from the stored operations carries
\* for the (name, operation id) pairs `fields`.
DocumentFields(fields) ==
    { [ name |-> f.name, id |-> f.id, type |-> OperationType(f.id, f.name),
        value |-> OperationValue(f.id, f.name) ] : f \in fields }

\* ------------------------------------------------------------------ getters
None == [ kind |-> "None" ]
Panic == [ kind |-> "panic" ]
Some(document) == [ kind |-> "Some", document |-> document ]
Err(e) == [ kind |-> "Err", error |-> e ]

\* The row is decoded into a DocumentRow whose public_key is a String: the
\* NULL the LEFT JOIN gives a document without an operations_v1 row fails
\* the decoding, and `?` returns the error.
UnexpectedNull ==
    FatalStorageError("error occurred while decoding column public_key: unexpected null")
Decodes(row) == row.public_key # "NULL"

\* `fields` are the mappings the field rows can parse to (ParsedFields).
StorageDocument(id, view_id, row, fields) ==
    [ id |-> id, view_id |-> view_id, schema_id |-> row.schema_id,
      fields |-> CHOOSE f \in fields : TRUE,
      author |-> row.public_key, deleted |-> row.is_deleted ]

\* get_document runs two statements, each on the pool and each awaited:
\* `docs` is the documents table as the first reads it, `rows` the
\* document_view_fields table as the second reads it.
get_document_from(docs, rows, id) ==
    LET found == SelectDocumentRow(docs, id)
    IN  IF found = {} THEN None
        ELSE LET document_row == CHOOSE r \in found : TRUE
                 document_view_id == document_row.document_view_id
             IN  IF ~Decodes(document_row) THEN Err(UnexpectedNull)
                 ELSE Some(StorageDocument(id, document_view_id, document_row,
                          ParsedFields(rows, document_view_id)))

\* get_document on a store no other call is writing to.
get_document(id) == get_document_from(documents, document_view_fields, id)

\* Mutant: the document is built from its current view, not the requested one.
get_document_by_view_id_current(views, docs, rows, id) ==
    LET ids == SelectViewDocumentId(views, id)
    IN  IF ids = {} THEN None
        ELSE LET document_id == CHOOSE d \in ids : TRUE
                 found == SelectDocumentRow(docs, document_id)
             IN  IF found = {} THEN Panic
                 ELSE LET document_row == CHOOSE r \in found : TRUE
                      IN  IF ~Decodes(document_row) THEN Err(UnexpectedNull)
                          ELSE Some(StorageDocument(document_row.document_id,
                                   document_row.document_view_id, document_row,
                                   ParsedFields(rows, document_row.document_view_id)))

\* get_document_by_view_id runs three statements: `views` is the
\* document_views table as the first reads it, `docs` the documents table as
\* the second reads it, `rows` the document_view_fields table as the third
\* reads it.
get_document_by_view_id_from(views, docs, rows, id) ==
    LET ids == SelectViewDocumentId(views, id)
    IN  IF ids = {} THEN None
        ELSE LET document_id == CHOOSE d \in ids : TRUE
                 found == SelectDocumentRow(docs, document_id)
             IN  \* document_row.unwrap()
                 IF found = {} THEN Panic
                 ELSE LET document_row == CHOOSE r \in found : TRUE
                      IN  IF ~Decodes(document_row) THEN Err(UnexpectedNull)
                          ELSE Some(StorageDocument(document_row.document_id, id,
                                   document_row, ParsedFields(rows, id)))

\* get_document_by_view_id on a store no other call is writing to.
get_document_by_view_id(id) ==
    get_document_by_view_id_from(document_views, documents, document_view_fields, id)

\* get_documents_by_schema runs one statement for the rows and then one for
\* the field rows of each: `docs` is the documents table as the first reads
\* it and rowsAt[d] the document_view_fields table as the statement for the
\* row of document d reads it. One StorageDocument per selected row, built from the row's
\* current view; the rows come in no stated order, so the result is kept as
\* a set. fetch_all decodes every row before the loop starts.
get_documents_by_schema_from(docs, rowsAt, schema_id) ==
    LET document_rows == SelectDocumentsBySchema(docs, schema_id)
    IN  IF \E document_row \in document_rows : ~Decodes(document_row)
        THEN Err(UnexpectedNull)
        ELSE { StorageDocument(document_row.document_id, document_row.document_view_id,
                   document_row, ParsedFields(rowsAt[document_row.document_id],
                                              document_row.document_view_id)) :
               document_row \in document_rows }

\* get_documents_by_schema on a store no other call is writing to.
get_documents_by_schema(schema_id) ==
    get_documents_by_schema_from(documents,
        [ d \in { r.document_id : r \in documents } |-> document_view_fields ],
        schema_id)

\* -------------------------------------------------------------------- blobs
\* The maximum allowed number of blob pieces per blob.
MAX_BLOB_PIECES == 10000

\* Err(BlobStoreError::e) and Ok(Some(blob_data)); the blob data is the
\* sequence of its bytes.
BlobStoreError(e) == [ kind |-> "error", error |-> e ]
BlobData(blob_data) == [ kind |-> "bytes", data |-> blob_data ]

\* Err(BlobStoreError::DocumentStorageError(e)): the error of the document
\* store, handed on by `?`.
DocumentStorageError(e) == [ kind |-> "DocumentStorageError", source |-> e ]

\* blob.get(name) is Some(value) of the wanted OperationValue variant.
HasField(document, name, type) ==
    \E x \in document.fields : x.name = name /\ x.type = type
FieldValue(document, name) ==
    (CHOOSE x \in document.fields : x.name = name).value

\* Query engine: the views of schema blob_piece_v1 that are stored.
StoredPieces(views) ==
    { r.document_view_id : r \in { q \in views : q.schema_id = BlobPiece } }

\* Select "data": the document the query returns for every stored piece
\* view, with the data field if the view has a row of it and with no field
\* if it has none.
PieceData(views, rows) ==
    [ v \in StoredPieces(views) |->
        [ fields |-> { x \in (CHOOSE f \in ParsedFields(rows, v) : TRUE) :
                         x.name = "data" } ] ]

\* What the query engine can answer: the matching views ("Ok"), or a
\* failure of the storage ("Err").
QueryAnswers == {"Ok", "Err"}

\* The error of store.query(..).await?, handed on as get_document's is.
QueryFailed == FatalStorageError("query failed")

\* Mutant: the pagination carries no limit.
First_unbounded(results, first) == results

\* Pagination { first }: at most `first` results are returned.
First(results, first) ==
    SubSeq(results, 1, IF Len(results) < first THEN Len(results) ELSE first)

\* store.query(blob_piece_v1, args, Some(RelationList::new_pinned(view id,
\* "pieces"))): the members of the list that are stored, in the order of the
\* list, cut by the pagination.
store_query(stored, list, first) ==
    First(SelectSeq(list, LAMBDA v : v \in stored), first)

\* blob_data += data_str for every result, in the order of the results.
\* Mutant: every piece is put before the bytes joined so far.
RECURSIVE Concat_reversed(_, _, _)
Concat_reversed(strs, lo, hi) ==
    IF lo > hi THEN << >>
    ELSE Concat_reversed(strs, lo + 1, hi) \o strs[lo]

RECURSIVE Concat(_, _, _)
Concat(strs, lo, hi) ==
    IF lo > hi THEN << >>
    ELSE IF lo = hi THEN strs[lo]
    ELSE LET mid == (lo + hi) \div 2
         IN  Concat(strs, lo, mid) \o Concat(strs, mid + 1, hi)

\* blob_data.len() == *length as usize. The cast of a negative i64 gives a
\* usize of at least 2^63, which the length of no String reaches.
SameLength(len, length) == length >= 0 /\ len = length

\* The loop over the results: blob_piece_document.get("data").expect(..)
\* and the match on OperationValue::String panic for a piece that came
\* without its data field or with data of another type.
PiecePanics(results, pieces) ==
    \E i \in DOMAIN results : ~HasField(pieces[results[i]], "data", "str")
PieceStrings(results, pieces) ==
    [ i \in DOMAIN results |-> FieldValue(pieces[results[i]], "data")[1] ]

\* Mutant: the number of results is compared before they are tested for
\* emptiness.
document_to_blob_data_countFirst(query, stored, pieces, blob) ==
    IF ~HasField(blob, "length", "int") THEN Panic
    ELSE IF ~HasField(blob, "pieces", "pinned_relation_list") THEN Panic
    ELSE IF query = "Err" THEN DocumentStorageError(QueryFailed)
    ELSE LET length == FieldValue(blob, "length")[1]
             list == FieldValue(blob, "pieces")
             num_pieces == Len(list)
             results == store_query(stored, list, MAX_BLOB_PIECES)
         IN  IF Len(results) # num_pieces THEN BlobStoreError("MissingPieces")
             ELSE IF Len(results) = 0 THEN BlobStoreError("NoBlobPiecesFound")
             ELSE IF PiecePanics(results, pieces) THEN Panic
             ELSE LET blob_data == Concat(PieceStrings(results, pieces), 1, Len(results))
                  IN  IF ~SameLength(Len(blob_data), length)
                      THEN BlobStoreError("IncorrectLength")
                      ELSE BlobData(blob_data)

\* Mutant: an empty result is not told apart, so a blob that declares no
\* piece and no byte is returned as empty data.
document_to_blob_data_noEmptyCheck(query, stored, pieces, blob) ==
    IF ~HasField(blob, "length", "int") THEN Panic
    ELSE IF ~HasField(blob, "pieces", "pinned_relation_list") THEN Panic
    ELSE IF query = "Err" THEN DocumentStorageError(QueryFailed)
    ELSE LET length == FieldValue(blob, "length")[1]
             list == FieldValue(blob, "pieces")
             num_pieces == Len(list)
             results == store_query(stored, list, MAX_BLOB_PIECES)
         IN  IF Len(results) # num_pieces THEN BlobStoreError("MissingPieces")
             ELSE IF PiecePanics(results, pieces) THEN Panic
             ELSE LET blob_data == Concat(PieceStrings(results, pieces), 1, Len(results))
                  IN  IF ~SameLength(Len(blob_data), length)
                      THEN BlobStoreError("IncorrectLength")
                      ELSE BlobData(blob_data)

\* document_to_blob_data. `query` is the answer of store.query(..).await?,
\* `stored` the piece views it can return and `pieces` the document it
\* returns for each.
document_to_blob_data(query, stored, pieces, blob) ==
    IF ~HasField(blob, "length", "int") THEN Panic
    ELSE IF ~HasField(blob, "pieces", "pinned_relation_list") THEN Panic
    ELSE IF query = "Err" THEN DocumentStorageError(QueryFailed)
    ELSE LET length == FieldValue(blob, "length")[1]
             list == FieldValue(blob, "pieces")
             num_pieces == Len(list)
             results == store_query(stored, list, MAX_BLOB_PIECES)
         IN  IF Len(results) = 0 THEN BlobStoreError("NoBlobPiecesFound")
             ELSE IF Len(results) # num_pieces THEN BlobStoreError("MissingPieces")
             ELSE IF PiecePanics(results, pieces) THEN Panic
             ELSE LET blob_data == Concat(PieceStrings(results, pieces), 1, Len(results))
                  IN  IF ~SameLength(Len(blob_data), length)
                      THEN BlobStoreError("IncorrectLength")
                      ELSE BlobData(blob_data)

\* Mutant: the fields are read before the schema id is compared.
get_blob_fieldsFirst(docs, rows, views, piece_rows, query, id) ==
    LET found == get_document_from(docs, rows, id)
    IN  IF found.kind = "Err" THEN DocumentStorageError(found.error)
        ELSE IF found.kind = "None" THEN None
        ELSE LET data == document_to_blob_data(query, StoredPieces(views),
                             PieceData(views, piece_rows), found.document)
             IN  IF data.kind = "panic" THEN Panic
                 ELSE IF found.document.schema_id # Blob
                 THEN BlobStoreError("NotBlobDocument")
                 ELSE data

\* get_blob: get_document(id).await? and then document_to_blob_data, whose
\* query is awaited in its turn. `docs` and `rows` are the tables as the
\* two statements of get_document read them, `views` and `piece_rows` the
\* tables as the query reads them, `query` the answer of the query.
get_blob_from(docs, rows, views, piece_rows, query, id) ==
    LET found == get_document_from(docs, rows, id)
    IN  IF found.kind = "Err" THEN DocumentStorageError(found.error)
        ELSE IF found.kind = "None" THEN None
        ELSE IF found.document.schema_id # Blob THEN BlobStoreError("NotBlobDocument")
        ELSE document_to_blob_data(query, StoredPieces(views),
                                   PieceData(views, piece_rows), found.document)

\* get_blob on a store no other call is writing to.
get_blob(query, id) ==
    get_blob_from(documents, document_view_fields, document_views, document_view_fields,
                  query, id)

\* get_blob_by_view_id: get_document_by_view_id(view_id).await? and then
\* document_to_blob_data. `read_views`, `docs` and `rows` are the tables as
\* the three statements of get_document_by_view_id read them, `views` and
\* `piece_rows` the tables as the query reads them, `query` the answer of
\* the query.
get_blob_by_view_id_from(read_views, docs, rows, views, piece_rows, query, view_id) ==
    LET found == get_document_by_view_id_from(read_views, docs, rows, view_id)
    IN  IF found.kind = "Err" THEN DocumentStorageError(found.error)
        ELSE IF found.kind = "None" THEN None
        ELSE IF found.kind = "panic" THEN Panic
        ELSE IF found.document.schema_id # Blob THEN BlobStoreError("NotBlobDocument")
        ELSE document_to_blob_data(query, StoredPieces(views),
                                   PieceData(views, piece_rows), found.document)

\* get_blob_by_view_id on a store no other call is writing to.
get_blob_by_view_id(query, view_id) ==
    get_blob_by_view_id_from(document_views, documents, document_view_fields,
                             document_views, document_view_fields, query, view_id)

\* ------------------------------------------------------------------- calls
\* No error was returned to the call.
NoError == [ kind |-> "-", message |-> "-" ]

\* A task between calls.
Idle ==
    [ pc |-> "idle", op |-> "-", doc |-> NoDocument, pending |-> {},
      result |-> "-", error |-> NoError, pre |-> << {}, {}, EmptyBag >>, arg |-> "-" ]

Running(t) == task[t].pc \notin {"idle", "done", "cancelled"}

\* Connections left in the pool: a call holds the connection of the
\* transaction it began until it commits, rolls back or is dropped. A getter
\* begins no transaction and holds no connection between its statements.
InTransaction(t) == task[t].pc \in {"upsert", "view", "fields", "commit", "rollback"}
Free == max_connections - Cardinality({ t \in DOMAIN task : InTransaction(t) })
\* pool.acquire() behind self.pool.begin() and behind every .execute(pool)
Acquires == Free > 0

\* History: for every view id the fields of the successful call that stored
\* it; for every document whether all its completed calls were successful
\* insert_document calls of a live document, and the view ids of those calls.
NotGiven == [ stored |-> FALSE, document_id |-> "-", fields |-> {} ]
Record(h, t, ok) ==
    LET c == task[t]
        d == c.doc
        live == ok /\ ~d.deleted /\ d.has_view
    IN  [ given |-> IF live
                    THEN [h.given EXCEPT ![d.view_id] =
                             [ stored |-> TRUE, document_id |-> d.id, fields |-> d.fields ]]
                    ELSE h.given,
          clean |-> [h.clean EXCEPT ![d.id] = @ /\ live /\ c.op = "insert_document"],
          chain |-> IF live /\ c.op = "insert_document"
                    THEN [h.chain EXCEPT ![d.id] = Append(@, d.view_id)]
                    ELSE h.chain ]

Init ==
    /\ max_connections = MaxConnections
    /\ documents = {}
    /\ document_views = {}
    /\ document_view_fields = EmptyBag
    /\ task = [ t \in Tasks |-> Idle ]
    /\ calls = 0
    /\ hist = [ given |-> [ v \in ViewIds |-> NotGiven ],
                clean |-> [ d \in DocumentIds |-> TRUE ],
                chain |-> [ d \in DocumentIds |-> << >> ] ]

\* SqlStore::insert_document: self.pool.begin()
Begin_insert_document(t, d) ==
    /\ ~Running(t)
    /\ Acquires
    /\ calls < MaxCalls
    /\ task' = [task EXCEPT ![t] =
                   [ pc |-> "upsert", op |-> "insert_document", doc |-> d,
                     pending |-> {}, result |-> "-", error |-> NoError, pre |-> tables,
                     arg |-> "-" ]]
    /\ calls' = calls + 1
    /\ UNCHANGED <<documents, document_views, document_view_fields, hist, max_connections>>

\* Mutant: the method calls the helper insert_document, which upserts first.
Begin_insert_document_view_upserts(t, d) ==
    /\ ~Running(t)
    /\ Acquires
    /\ calls < MaxCalls
    /\ task' = [task EXCEPT ![t] =
                   [ pc |-> "upsert", op |-> "insert_document_view", doc |-> d,
                     pending |-> {}, result |-> "-", error |-> NoError, pre |-> tables,
                     arg |-> "-" ]]
    /\ calls' = calls + 1
    /\ UNCHANGED <<documents, document_views, document_view_fields, hist, max_connections>>

\* SqlStore::insert_document_view: self.pool.begin()
Begin_insert_document_view(t, d) ==
    /\ ~Running(t)
    /\ Acquires
    /\ calls < MaxCalls
    /\ task' = [task EXCEPT ![t] =
                   [ pc |-> "view", op |-> "insert_document_view", doc |-> d,
                     pending |-> {}, result |-> "-", error |-> NoError, pre |-> tables,
                     arg |-> "-" ]]
    /\ calls' = calls + 1
    /\ UNCHANGED <<documents, document_views, document_view_fields, hist, max_connections>>

\* insert_document (helper): the upsert, then the branch on is_deleted/view.
Upsert(t) ==
    /\ task[t].pc = "upsert"
    /\ Acquires
    /\ documents' = UpsertDocument(documents, task[t].doc)
    /\ task' = [task EXCEPT ![t].pc =
                   IF InsertsView(task[t].doc) THEN "view" ELSE "commit"]
    /\ UNCHANGED <<document_views, document_view_fields, calls, hist, max_connections>>

\* Mutant: the error of the view insert is kept but the field inserts follow.
InsertViewRow_goesOn(t) ==
    /\ task[t].pc = "view"
    /\ Acquires
    /\ IF InsertViewOk(document_views, documents, task[t].doc)
       THEN /\ document_views' = InsertView(document_views, task[t].doc)
            /\ task' = [task EXCEPT ![t].pc = IF task[t].doc.fields = {} THEN "commit" ELSE "fields",
                                    ![t].pending = task[t].doc.fields]
       ELSE /\ task' = [task EXCEPT ![t].pc = IF task[t].doc.fields = {} THEN "commit" ELSE "fields",
                                    ![t].pending = task[t].doc.fields,
                                    ![t].error = InsertViewError(document_views, task[t].doc)]
            /\ UNCHANGED document_views
    /\ UNCHANGED <<documents, document_view_fields, calls, hist, max_connections>>

\* insert_document_view (helper): one INSERT; an error ends the call.
InsertViewRow(t) ==
    /\ task[t].pc = "view"
    /\ Acquires
    /\ IF InsertViewOk(document_views, documents, task[t].doc)
       THEN /\ document_views' = InsertView(document_views, task[t].doc)
            /\ task' = [task EXCEPT ![t].pc = IF task[t].doc.fields = {} THEN "commit" ELSE "fields",
                                    ![t].pending = task[t].doc.fields]
       ELSE /\ task' = [task EXCEPT ![t].pc = "rollback",
                                    ![t].error = InsertViewError(document_views, task[t].doc)]
            /\ UNCHANGED document_views
    /\ UNCHANGED <<documents, document_view_fields, calls, hist, max_connections>>

\* insert_document_fields: try_join_all runs one INSERT per field in any
\* order; the first error is returned and the statements not yet run are
\* dropped.
InsertFieldRowOf(t, f) ==
    /\ task[t].pc = "fields"
    /\ Acquires
    /\ f \in task[t].pending
    /\ IF InsertFieldOk(f)
       THEN /\ document_view_fields' =
                   InsertField(document_view_fields, task[t].doc.view_id, f)
            /\ task' = [task EXCEPT ![t].pending = @ \ {f},
                                    ![t].pc = IF task[t].pending = {f} THEN "commit" ELSE "fields"]
       ELSE /\ task' = [task EXCEPT ![t].pending = {}, ![t].pc = "rollback",
                                    ![t].error = InsertFieldError(f)]
            /\ UNCHANGED document_view_fields
    /\ UNCHANGED <<documents, document_views, calls, hist, max_connections>>

InsertFieldRow(t) == \E f \in task[t].pending : InsertFieldRowOf(t, f)

\* The pool gives up an acquire() that found no connection: the statement
\* fails with the pool's error and the call goes on to its rollback.
AcquireTimeout(t) ==
    /\ task[t].pc \in {"upsert", "view", "fields"}
    /\ ~Acquires
    /\ task' = [task EXCEPT ![t].pc = "rollback", ![t].pending = {},
                            ![t].error = FatalStorageError("PoolTimedOut")]
    /\ UNCHANGED <<documents, document_views, document_view_fields, calls, hist, max_connections>>

\* transaction.commit(): the transaction holds no statement.
Commit(t) ==
    /\ task[t].pc = "commit"
    /\ task' = [task EXCEPT ![t].pc = "done", ![t].result = "ok"]
    /\ hist' = Record(hist, t, TRUE)
    /\ UNCHANGED <<documents, document_views, document_view_fields, calls, max_connections>>

\* Mutant: after the rollback the method falls through to Ok(()).
Rollback_ok(t) ==
    /\ task[t].pc = "rollback"
    /\ task' = [task EXCEPT ![t].pc = "done", ![t].result = "ok"]
    /\ hist' = Record(hist, t, FALSE)
    /\ UNCHANGED <<documents, document_views, document_view_fields, calls, max_connections>>

\* transaction.rollback(), then Err(err): the transaction holds no statement.
Rollback(t) ==
    /\ task[t].pc = "rollback"
    /\ task' = [task EXCEPT ![t].pc = "done", ![t].result = "err"]
    /\ hist' = Record(hist, t, FALSE)
    /\ UNCHANGED <<documents, document_views, document_view_fields, calls, max_connections>>

\* The future of the call is dropped at one of its awaits: no further
\* statement runs, and dropping the transaction rolls back a transaction that
\* holds no statement.
Cancel(t) ==
    /\ Running(t)
    /\ task' = [task EXCEPT ![t].pc = "cancelled", ![t].pending = {},
                            ![t].result = "cancelled"]
    /\ hist' = Record(hist, t, FALSE)
    /\ UNCHANGED <<documents, document_views, document_view_fields, calls, max_connections>>

\* The caller issues its calls one after the other; the pool is large enough
\* for every acquire() of a call to find a connection.
Next ==
    \E t \in Tasks :
        \/ \E d \in Documents : Begin_insert_document(t, d)
        \/ \E d \in LiveDocuments : Begin_insert_document_view(t, d)
        \/ Upsert(t)
        \/ InsertViewRow(t)
        \/ InsertFieldRow(t)
        \/ Commit(t)
        \/ Rollback(t)
        \/ Cancel(t)

Spec == Init /\ [][Next]_vars

\* The backend answers every statement it is given and every commit and
\* rollback; the pool is not bound to enforce a deadline on acquire(), and
\* nothing obliges a caller to drop its call.
Fairness ==
    \A t \in Tasks :
        /\ WF_vars(Upsert(t))
        /\ WF_vars(InsertViewRow(t))
        /\ WF_vars(InsertFieldRow(t))
        /\ WF_vars(Commit(t))
        /\ WF_vars(Rollback(t))

\* The store opened with a pool of any size from one connection on.
LiveInit ==
    /\ max_connections \in 1..MaxConnections
    /\ documents = {}
    /\ document_views = {}
    /\ document_view_fields = EmptyBag
    /\ task = [ t \in Tasks |-> Idle ]
    /\ calls = 0
    /\ hist = [ given |-> [ v \in ViewIds |-> NotGiven ],
                clean |-> [ d \in DocumentIds |-> TRUE ],
                chain |-> [ d \in DocumentIds |-> << >> ] ]
LiveNext ==
    \/ Next
    \/ \E t \in Tasks : AcquireTimeout(t)
LiveSpec == LiveInit /\ [][LiveNext]_vars /\ Fairness

\* ------------------------------------------------------------- blob getters
\* The blob getters read a store that insert_document calls have filled.
PieceDocument(p) ==
    [ id |-> p, view_id |-> p, schema_id |-> BlobPiece, deleted |-> FALSE,
      has_view |-> TRUE, fields |-> { [name |-> "data", id |-> p] } ]
BlobDocument(k) ==
    [ id |-> k, view_id |-> k, schema_id |-> Blob, deleted |-> FALSE,
      has_view |-> TRUE,
      fields |-> { [name |-> "length", id |-> k], [name |-> "pieces", id |-> k] } ]
DeletedDocument(d) ==
    [ d EXCEPT !.deleted = TRUE, !.has_view = FALSE, !.fields = {} ]

\* The tables after the upsert of insert_document(d).
Upserted(tbls, d) == << UpsertDocument(tbls[1], d), tbls[2], tbls[3] >>

\* insert_document_fields run to its end: the field rows it can leave. The
\* statements of try_join_all run in any order; the first that fails ends
\* the call, and the rows inserted before it stay.
RECURSIVE InsertedFields(_, _, _)
InsertedFields(rows, view_id, pending) ==
    IF pending = {} THEN { rows }
    ELSE UNION { IF InsertFieldOk(f)
                 THEN InsertedFields(InsertField(rows, view_id, f), view_id, pending \ {f})
                 ELSE { rows } : f \in pending }

\* insert_document(d) run to its end by one caller while no other call
\* runs: the tables it can leave. The upsert, then the view row and the
\* field rows of a document that is not deleted; the statement that fails
\* ends the call, and the rollback takes back no row.
Inserted(tbls, d) ==
    IF ~InsertsView(d) THEN { Upserted(tbls, d) }
    ELSE LET docs == UpsertDocument(tbls[1], d)
         IN  IF ~InsertViewOk(tbls[2], docs, d) THEN { << docs, tbls[2], tbls[3] >> }
             ELSE { << docs, InsertView(tbls[2], d), rows >> :
                    rows \in InsertedFields(tbls[3], d.view_id, d.fields) }

\* insert_document called for every document of the sequence `ds`, one call
\* after the other in the order of the sequence: the tables they can leave.
RECURSIVE InsertedAll(_, _)
InsertedAll(tbls, ds) ==
    IF ds = << >> THEN { tbls }
    ELSE UNION { InsertedAll(next, Tail(ds)) : next \in Inserted(tbls, Head(ds)) }

\* Where one caller at a time writes, the insert_document call that has
\* returned has left the tables in one of the states of Inserted.
InsertedAgrees ==
    \A t \in DOMAIN task :
        (task[t].pc = "done" /\ task[t].op = "insert_document")
            => tables \in Inserted(task[t].pre, task[t].doc)

\* insert_document(d) that was dropped, or whose caller stopped, after its
\* insert into document_views and before any of its field inserts.
InsertedView(tbls, d) ==
    << UpsertDocument(tbls[1], d), InsertView(tbls[2], d), tbls[3] >>

\* What became of insert_document(piece p): never called, left after the
\* view row, or completed. P gives it for the pieces it names, the other
\* pieces were never inserted; the pieces are inserted one after the other.
PieceStates == {"none", "view", "stored"}
PieceOrder == <<"p1", "p2", "p3">>
RECURSIVE PieceStore(_, _)
PieceStore(P, n) ==
    IF n = 0 THEN { << {}, {}, EmptyBag >> }
    ELSE LET d == PieceDocument(PieceOrder[n])
             st == IF d.id \in DOMAIN P THEN P[d.id] ELSE "none"
         IN  UNION { CASE st = "none" -> { tbls }
                       [] st = "view" -> { InsertedView(tbls, d) }
                       [] st = "stored" -> Inserted(tbls, d)
                     : tbls \in PieceStore(P, n - 1) }
\* The pieces that the pieces list of blob k names.
DeclaredPieces(k) ==
    { OperationValue(k, "pieces")[i] : i \in DOMAIN OperationValue(k, "pieces") }

\* A document id that is the id of no row of operations_v1: documents has no
\* foreign key to operations_v1, so insert_document stores such a document.
Unrecorded == "q"

\* What became of insert_document(blob k): never called, dropped after its
\* upsert, completed, completed and followed by the document's deletion, or
\* completed for a document whose id is Unrecorded.
BlobStates == {"none", "upserted", "live", "deleted", "unrecorded"}
BlobStore(P, k, st) ==
    LET Then(ds) == UNION { InsertedAll(tbls, ds) : tbls \in PieceStore(P, Len(PieceOrder)) }
    IN  CASE st = "none" -> Then(<< >>)
          [] st = "upserted" -> { Upserted(tbls, BlobDocument(k)) : tbls \in Then(<< >>) }
          [] st = "live" -> Then(<< BlobDocument(k) >>)
          [] st = "deleted" ->
                Then(<< BlobDocument(k), DeletedDocument(BlobDocument(k)) >>)
          [] st = "unrecorded" ->
                Then(<< [ BlobDocument(k) EXCEPT !.id = Unrecorded ] >>)

\* ---------------------------------------------------- getters, by statement
\* A getter runs its statements one by one on the pool, outside of any
\* transaction, and is suspended at each: what it returns is built from the
\* tables as each statement found them, and insert_document calls of other
\* callers may write in between.
ReadBlob == "b1"
ReadPiece == "p1"
ReadDocuments ==
    { BlobDocument(ReadBlob), DeletedDocument(BlobDocument(ReadBlob)),
      PieceDocument(ReadPiece) }
ById == { "get_document", "get_blob" }
ByViewId == { "get_document_by_view_id", "get_blob_by_view_id" }

\* A caller that has not called its getter. The tables its statements read
\* are kept: read_views, read_docs and read_rows by the statements of the
\* document getter, piece_views and piece_rows by the query of
\* document_to_blob_data, whose answer is `query`, and rowsAt as in
\* get_documents_by_schema_from.
NotReading ==
    [ pc |-> "idle", op |-> "-", arg |-> "-", result |-> "-",
      read_views |-> {}, read_docs |-> {}, read_rows |-> EmptyBag,
      piece_views |-> {}, piece_rows |-> EmptyBag, query |-> "-", rowsAt |-> << >> ]

\* What getter `op` returns from the tables its statements read.
Outcome(op, read_views, docs, rows, views, piece_rows, query, arg) ==
    CASE op = "get_document" -> get_document_from(docs, rows, arg)
      [] op = "get_document_by_view_id" ->
             get_document_by_view_id_from(read_views, docs, rows, arg)
      [] op = "get_blob" -> get_blob_from(docs, rows, views, piece_rows, query, arg)
      [] op = "get_blob_by_view_id" ->
             get_blob_by_view_id_from(read_views, docs, rows, views, piece_rows, query,
                                      arg)

\* The value the call returns, from the tables it has read so far.
Returned(c) ==
    Outcome(c.op, c.read_views, c.read_docs, c.read_rows, c.piece_views, c.piece_rows,
            c.query, c.arg)

\* get_document: the statement that fetches the documents row; `None` and
\* the decoding error return at once. get_blob begins with get_document.
Read_document_row(t, op, id) ==
    /\ task[t].pc = "idle"
    /\ Acquires
    /\ LET c == [ task[t] EXCEPT !.op = op, !.arg = id, !.read_docs = documents ]
       IN  IF get_document_from(documents, EmptyBag, id).kind # "Some"
           THEN task' = [task EXCEPT ![t] = [ c EXCEPT !.pc = "done", !.result = Returned(c) ]]
           ELSE task' = [task EXCEPT ![t] = [ c EXCEPT !.pc = "read_fields" ]]
    /\ UNCHANGED <<documents, document_views, document_view_fields, calls, hist,
                   max_connections>>

\* get_document_by_view_id: the statement that fetches the document id of
\* the view; `None` returns at once. get_blob_by_view_id begins with
\* get_document_by_view_id.
Read_view_row(t, op, id) ==
    /\ task[t].pc = "idle"
    /\ Acquires
    /\ LET c == [ task[t] EXCEPT !.op = op, !.arg = id, !.read_views = document_views ]
       IN  IF SelectViewDocumentId(document_views, id) = {}
           THEN task' = [task EXCEPT ![t] = [ c EXCEPT !.pc = "done", !.result = Returned(c) ]]
           ELSE task' = [task EXCEPT ![t] = [ c EXCEPT !.pc = "read_row" ]]
    /\ UNCHANGED <<documents, document_views, document_view_fields, calls, hist,
                   max_connections>>

\* get_document_by_view_id: the statement that fetches the documents row of
\* the view's document; the unwrap of no row and the decoding error end the
\* call.
Read_view_document_row(t) ==
    /\ task[t].pc = "read_row"
    /\ Acquires
    /\ LET c == [ task[t] EXCEPT !.read_docs = documents ]
       IN  IF get_document_by_view_id_from(c.read_views, documents, EmptyBag,
                                           c.arg).kind # "Some"
           THEN task' = [task EXCEPT ![t] = [ c EXCEPT !.pc = "done", !.result = Returned(c) ]]
           ELSE task' = [task EXCEPT ![t] = [ c EXCEPT !.pc = "read_fields" ]]
    /\ UNCHANGED <<documents, document_views, document_view_fields, calls, hist,
                   max_connections>>

\* get_document_view_field_rows, the last statement of get_document and of
\* get_document_by_view_id; a blob getter then compares the schema id and
\* goes on to document_to_blob_data, whose unwraps of the length and
\* pieces fields precede its query.
Read_field_rows(t) ==
    /\ task[t].pc = "read_fields"
    /\ Acquires
    /\ LET c == [ task[t] EXCEPT !.read_rows = document_view_fields ]
           found == IF c.op \in ById
                    THEN get_document_from(c.read_docs, c.read_rows, c.arg)
                    ELSE get_document_by_view_id_from(c.read_views, c.read_docs,
                                                      c.read_rows, c.arg)
       IN  IF \/ c.op \in {"get_document", "get_document_by_view_id"}
              \/ found.document.schema_id # Blob
              \/ ~HasField(found.document, "length", "int")
              \/ ~HasField(found.document, "pieces", "pinned_relation_list")
           THEN task' = [task EXCEPT ![t] = [ c EXCEPT !.pc = "done", !.result = Returned(c) ]]
           ELSE task' = [task EXCEPT ![t] = [ c EXCEPT !.pc = "read_query" ]]
    /\ UNCHANGED <<documents, document_views, document_view_fields, calls, hist,
                   max_connections>>

\* document_to_blob_data: store.query(..).await? with one of the answers
\* the query engine can give, and what follows it.
Read_query(t) ==
    /\ task[t].pc = "read_query"
    /\ Acquires
    /\ \E query \in QueryAnswers :
        LET c == [ task[t] EXCEPT !.piece_views = document_views,
                                  !.piece_rows = document_view_fields,
                                  !.query = query ]
        IN  task' = [task EXCEPT ![t] = [ c EXCEPT !.pc = "done", !.result = Returned(c) ]]
    /\ UNCHANGED <<documents, document_views, document_view_fields, calls, hist,
                   max_connections>>

\* get_documents_by_schema: the statement that fetches the rows; no row and
\* the decoding error return at once.
Read_schema_rows(t, schema_id) ==
    /\ task[t].pc = "idle"
    /\ Acquires
    /\ LET c == [ task[t] EXCEPT !.op = "get_documents_by_schema", !.arg = schema_id,
                                 !.read_docs = documents ]
           document_rows == SelectDocumentsBySchema(documents, schema_id)
       IN  IF document_rows = {} \/ \E r \in document_rows : ~Decodes(r)
           THEN task' = [task EXCEPT ![t] =
                            [ c EXCEPT !.pc = "done",
                                       !.result = get_documents_by_schema_from(
                                                      documents, << >>, schema_id) ]]
           ELSE task' = [task EXCEPT ![t] = [ c EXCEPT !.pc = "read_each" ]]
    /\ UNCHANGED <<documents, document_views, document_view_fields, calls, hist,
                   max_connections>>

\* get_documents_by_schema: get_document_view_field_rows for the next row of
\* the loop; after the last row the documents are returned.
Read_schema_field_rows(t) ==
    /\ task[t].pc = "read_each"
    /\ Acquires
    /\ LET c == task[t]
           ids == { r.document_id : r \in SelectDocumentsBySchema(c.read_docs, c.arg) }
       IN  \E d \in ids \ DOMAIN c.rowsAt :
               LET read == [ x \in DOMAIN c.rowsAt \cup {d} |->
                               IF x = d THEN document_view_fields ELSE c.rowsAt[x] ]
               IN  IF DOMAIN read = ids
                   THEN task' = [task EXCEPT ![t].pc = "done", ![t].rowsAt = read,
                                     ![t].result = get_documents_by_schema_from(
                                                       c.read_docs, read, c.arg)]
                   ELSE task' = [task EXCEPT ![t].rowsAt = read]
    /\ UNCHANGED <<documents, document_views, document_view_fields, calls, hist,
                   max_connections>>

\* ------------------------------------------------------------- blob store
\* One caller makes a blob getter call on a store that insert_document
\* calls have filled with blob k and the pieces it names, every call
\* completed or left unfinished, while another caller makes insert_document
\* calls.
BlobWriter == 2
BlobInit ==
    \E k \in BlobIds, st \in BlobStates :
      \E P \in [DeclaredPieces(k) -> PieceStates] :
        \E tbls \in BlobStore(P, k, st) :
            /\ documents = tbls[1]
            /\ document_views = tbls[2]
            /\ document_view_fields = tbls[3]
            /\ task = [ t \in Tasks \cup {BlobWriter} |->
                          IF t \in Tasks THEN NotReading ELSE Idle ]
            /\ calls = 0
            /\ max_connections = MaxConnections
            /\ hist = [ given |-> [ v \in ViewIds \cup {ReadBlob, ReadPiece} |-> NotGiven ],
                        clean |-> [ d \in DocumentIds \cup {ReadBlob, ReadPiece} |-> TRUE ],
                        chain |-> [ d \in DocumentIds \cup {ReadBlob, ReadPiece} |-> << >> ] ]

BlobSteps(ds) ==
    \/ \E d \in ds : Begin_insert_document(BlobWriter, d)
    \/ Upsert(BlobWriter)
    \/ InsertViewRow(BlobWriter)
    \/ InsertFieldRow(BlobWriter)
    \/ Commit(BlobWriter)
    \/ Rollback(BlobWriter)
    \/ \E t \in Tasks :
           \/ \E id \in BlobIds \cup PieceIds \cup {Unrecorded} :
                  Read_document_row(t, "get_blob", id)
           \/ \E view_id \in BlobIds \cup PieceIds :
                  Read_view_row(t, "get_blob_by_view_id", view_id)
           \/ Read_view_document_row(t)
           \/ Read_field_rows(t)
           \/ Read_query(t)

\* The other caller inserts blob document ReadBlob, live or deleted, or
\* piece ReadPiece.
BlobNext == BlobSteps(ReadDocuments)

BlobSpec == BlobInit /\ [][BlobNext]_vars

\* ------------------------------------------------- getters beside writers
\* Two callers insert blob document ReadBlob, live or deleted, into a store
\* that holds some of its pieces, while a third caller makes one getter
\* call.
Writers == {1, 2}
Reader == 3
ReadArgs == { ReadBlob, ReadPiece }

ReadInit ==
    \E P \in [DeclaredPieces(ReadBlob) -> PieceStates] :
        \E tbls \in BlobStore(P, ReadBlob, "none") :
            /\ documents = tbls[1]
            /\ document_views = tbls[2]
            /\ document_view_fields = tbls[3]
            /\ task = [ t \in Writers \cup {Reader} |->
                          IF t \in Writers THEN Idle ELSE NotReading ]
            /\ calls = 0
            /\ max_connections = Cardinality(Writers) + 1
            /\ hist = [ given |-> [ v \in ViewIds \cup {ReadBlob, ReadPiece} |-> NotGiven ],
                        clean |-> [ d \in DocumentIds \cup {ReadBlob, ReadPiece} |-> TRUE ],
                        chain |-> [ d \in DocumentIds \cup {ReadBlob, ReadPiece} |-> << >> ] ]

ReadNext ==
    \/ \E t \in Writers :
           \/ \E d \in ReadDocuments : Begin_insert_document(t, d)
           \/ Upsert(t)
           \/ InsertViewRow(t)
           \/ InsertFieldRow(t)
           \/ Commit(t)
           \/ Rollback(t)
    \/ \E op \in ById, id \in ReadArgs : Read_document_row(Reader, op, id)
    \/ \E op \in ByViewId, id \in ReadArgs : Read_view_row(Reader, op, id)
    \/ Read_view_document_row(Reader)
    \/ Read_field_rows(Reader)
    \/ Read_query(Reader)
    \/ \E schema_id \in {Blob, BlobPiece} : Read_schema_rows(Reader, schema_id)
    \/ Read_schema_field_rows(Reader)

ReadSpec == ReadInit /\ [][ReadNext]_vars

\* ------------------------------------------------------ updated blobs
\* The blob getters read a store in which blob document k was inserted with
\* view k and then again with view k2, which is its current view. P gives
\* what became of the insert_document calls of the pieces that view k
\* names; the other pieces that view k2 names are stored whole.
UpdatedBlob(k, k2) == [ BlobDocument(k2) EXCEPT !.id = k ]
UpdatedStore(P, k, k2) ==
    LET All == [ p \in DeclaredPieces(k) \cup DeclaredPieces(k2) |->
                   IF p \in DOMAIN P THEN P[p] ELSE "stored" ]
    IN  UNION { InsertedAll(tbls, << BlobDocument(k), UpdatedBlob(k, k2) >>) :
                tbls \in PieceStore(All, Len(PieceOrder)) }

UpdatedInit ==
    \E k \in BlobIds, k2 \in BlobIds :
      \E P \in [DeclaredPieces(k) -> PieceStates] :
        \E tbls \in UpdatedStore(P, k, k2) :
            /\ k2 # k
            /\ documents = tbls[1]
            /\ document_views = tbls[2]
            /\ document_view_fields = tbls[3]
            /\ task = [ t \in Tasks \cup {BlobWriter} |->
                          IF t \in Tasks THEN NotReading ELSE Idle ]
            /\ calls = 0
            /\ max_connections = MaxConnections
            /\ hist = [ given |-> [ v \in ViewIds \cup {ReadBlob, ReadPiece} |-> NotGiven ],
                        clean |-> [ d \in DocumentIds \cup {ReadBlob, ReadPiece} |-> TRUE ],
                        chain |-> [ d \in DocumentIds \cup {ReadBlob, ReadPiece} |-> << >> ] ]

\* The other caller inserts blob document ReadBlob, live or deleted.
UpdatedNext == BlobSteps(ReadDocuments \ {PieceDocument(ReadPiece)})

UpdatedSpec == UpdatedInit /\ [][UpdatedNext]_vars

\* ------------------------------------------------- document_to_blob_data
\* document_to_blob_data applied to blob documents with the answer of the
\* store given directly. A case is a blob of `pieces` numbered pieces, of
\* which those numbered lo..hi are stored, with a declared length. Piece i
\* holds one byte when i is odd and two when it is even.
PieceCounts == (0..MaxPieces) \cup {MAX_BLOB_PIECES, MAX_BLOB_PIECES + 1}
Bytes(n) == n + (n \div 2)
BlobCases ==
    UNION { [ pieces : {n}, lo : {1, 2}, hi : {0, n - 1, n},
              length : {Bytes(n), Bytes(n) + 1, 0, -1},
              data : {"str", "int", "none"} ] : n \in PieceCounts }
CasePieces(c) == [ i \in 1..c.pieces |-> i ]
CaseStored(c) == c.lo .. c.hi
\* The document the query returns for every stored piece: its data field
\* is a string; that of the first stored piece is of the type c.data, or is
\* not there.
CaseData(c) ==
    [ i \in CaseStored(c) |->
        [ fields |->
            IF i = c.lo /\ c.data = "none" THEN {}
            ELSE { [ name |-> "data", id |-> i,
                     type |-> IF i = c.lo THEN c.data ELSE "str",
                     value |-> << IF i % 2 = 1 THEN << i % 256 >>
                                  ELSE << i % 256, 0 >> >> ] } ] ]
CaseBlob(c) ==
    [ fields |->
        { [ name |-> "length", id |-> "b", type |-> "int", value |-> << c.length >> ],
          [ name |-> "pieces", id |-> "b", type |-> "pinned_relation_list",
            value |-> CasePieces(c) ] } ]

CaseInit ==
    \E c \in BlobCases :
        /\ documents = {}
        /\ document_views = {}
        /\ document_view_fields = EmptyBag
        /\ task = [ t \in Tasks |-> [ Idle EXCEPT !.arg = c ] ]
        /\ calls = 0
        /\ max_connections = MaxConnections
        /\ hist = [ given |-> [ v \in ViewIds |-> NotGiven ],
                    clean |-> [ d \in DocumentIds |-> TRUE ],
                    chain |-> [ d \in DocumentIds |-> << >> ] ]

\* document_to_blob_data applied to the case of the task, its query
\* answered.
Call_document_to_blob_data(t) ==
    /\ ~Running(t)
    /\ calls < MaxCalls
    /\ task' = [task EXCEPT ![t].pc = "done", ![t].op = "document_to_blob_data",
                            ![t].result =
                                document_to_blob_data("Ok", CaseStored(task[t].arg),
                                    CaseData(task[t].arg), CaseBlob(task[t].arg))]
    /\ calls' = calls + 1
    /\ UNCHANGED <<documents, document_views, document_view_fields, hist, max_connections>>

CaseNext == \E t \in Tasks : Call_document_to_blob_data(t)

CaseSpec == CaseInit /\ [][CaseNext]_vars

\* ----------------------------------------------------------------- nextArgs
\* GraphQL values of the arguments of a nextArgs field.
Null == [ type |-> "Null" ]
Number == [ type |-> "Number" ]
String(text) == [ type |-> "String", text |-> text ]
PublicKeys == {"8b52ae153142288402382fd6d9619e018978e015e6bc372b1b0c7bd40c6a240a"}
DocumentViewIds ==
    {"00203c56166a80316aec6b629814ffbafb6bf54d9e30093e122b3cb0f7220e82f15d"}
Strings == PublicKeys \cup DocumentViewIds \cup {"nope"}

\* The arguments of the field in the order the query writes them. The
\* schema makes publicKey required and not null, viewId optional.
Argument(name, value) == [ name |-> name, value |-> value ]
PublicKeyArguments ==
    { Argument("publicKey", v) : v \in { String(x) : x \in Strings } \cup {Number} }
ViewIdArguments ==
    { Argument("viewId", v) : v \in { String(x) : x \in Strings } \cup {Number, Null} }
Queries ==
    { <<pk>> : pk \in PublicKeyArguments }
        \cup { <<pk, v>> : pk \in PublicKeyArguments, v \in ViewIdArguments }
        \cup { <<v, pk>> : pk \in PublicKeyArguments, v \in ViewIdArguments }

\* Err(Error) of the resolver, which becomes the error response.
Error(message) == [ kind |-> "error", message |-> message ]

\* PublicKeyScalar::from_value and DocumentViewIdScalar::from_value: only a
\* string that encodes a value of the type is accepted.
PublicKeyScalar_from_value(value) ==
    IF value.type = "String" /\ value.text \in PublicKeys
    THEN [ kind |-> "Ok", value |-> value.text ]
    ELSE Error("invalid hex encoding in public key string")
DocumentViewIdScalar_from_value(value) ==
    IF value.type = "String" /\ value.text \in DocumentViewIds
    THEN [ kind |-> "Ok", value |-> value.text ]
    ELSE Error("invalid document view id")

\* Option<DocumentViewIdScalar>
NoViewId == [ some |-> FALSE ]
SomeViewId(id) == [ some |-> TRUE, id |-> id ]

\* parse_arguments: the values are taken by position, the first as
\* public key and the second, if there is one, as document view id.
parse_arguments(args) ==
    IF Len(args) = 0 THEN Panic
    ELSE LET public_key == PublicKeyScalar_from_value(args[1].value)
         IN  IF public_key.kind = "error" THEN public_key
             ELSE IF Len(args) < 2 \/ args[2].value.type = "Null"
             THEN [ kind |-> "Ok", public_key |-> public_key.value,
                    document_view_id |-> NoViewId ]
             ELSE IF args[2].value.type # "String" THEN Panic
             ELSE LET document_view_id == DocumentViewIdScalar_from_value(args[2].value)
                  IN  IF document_view_id.kind = "error" THEN document_view_id
                      ELSE [ kind |-> "Ok", public_key |-> public_key.value,
                             document_view_id |-> SomeViewId(document_view_id.value) ]

\* The resolver of nextArgs: api::next_args is called with the parsed
\* arguments, or the error of parse_arguments is returned.
NextArgsOf(public_key, document_view_id) ==
    [ kind |-> "next_args", public_key |-> public_key,
      document_view_id |-> document_view_id ]
next_args_query(args) ==
    LET parsed == parse_arguments(args)
    IN  IF parsed.kind = "Ok"
        THEN NextArgsOf(parsed.public_key, parsed.document_view_id)
        ELSE parsed

QueryInit ==
    \E q \in Queries :
        /\ documents = {}
        /\ document_views = {}
        /\ document_view_fields = EmptyBag
        /\ task = [ t \in Tasks |-> [ Idle EXCEPT !.arg = q ] ]
        /\ calls = 0
        /\ max_connections = MaxConnections
        /\ hist = [ given |-> [ v \in ViewIds |-> NotGiven ],
                    clean |-> [ d \in DocumentIds |-> TRUE ],
                    chain |-> [ d \in DocumentIds |-> << >> ] ]

\* The query of the task is resolved.
Resolve_next_args(t) ==
    /\ ~Running(t)
    /\ calls < MaxCalls
    /\ task' = [task EXCEPT ![t].pc = "done", ![t].op = "nextArgs",
                            ![t].result = next_args_query(task[t].arg)]
    /\ calls' = calls + 1
    /\ UNCHANGED <<documents, document_views, document_view_fields, hist, max_connections>>

QueryNext == \E t \in Tasks : Resolve_next_args(t)

QuerySpec == QueryInit /\ [][QueryNext]_vars

\* ------------------------------------------------------------------ claims
Done(t) == task[t].pc = "done"
DoneOp(t, op) == Done(t) /\ task[t].op = op
DocumentRows(docs, id) == { r \in docs : r.document_id = id }
ViewFieldBag(d) == SetToBag({ FieldRow(d.view_id, f) : f \in d.fields })

\* C1: a failed insert_document leaves documents, document_views and
\* document_view_fields exactly as they were before the call.
C1_InsertDocumentAtomic ==
    \A t \in Tasks :
        (DoneOp(t, "insert_document") /\ task[t].result = "err")
            => tables = task[t].pre

\* C2: insert_document_view for an existing document with a field that
\* references an unknown operation fails and adds no row to document_views
\* or document_view_fields.
C2_InsertViewAtomic ==
    \A t \in Tasks :
        ( /\ DoneOp(t, "insert_document_view")
          /\ HasDocument(task[t].pre[1], task[t].doc.id)
          /\ \E f \in task[t].doc.fields : ~OperationExists(f.id) )
            => /\ task[t].result = "err"
               /\ document_views = task[t].pre[2]
               /\ document_view_fields = task[t].pre[3]

\* C3: whenever the documents table shows the live row that an
\* insert_document call writes (current view id V), the tables also show the
\* document_views row of V and every field row of V that the call writes.
C3_VisibleTogether ==
    \A t \in Tasks :
        ( /\ task[t].op = "insert_document"
          /\ task[t].pc \notin {"idle", "upsert"}
          /\ \E r \in documents :
                /\ r.document_id = task[t].doc.id
                /\ r.document_view_id = task[t].doc.view_id
                /\ ~r.is_deleted )
            => /\ ViewIdTaken(document_views, task[t].doc.view_id)
               /\ \A f \in task[t].doc.fields :
                     BagIn(FieldRow(task[t].doc.view_id, f), document_view_fields)

\* What the getters return for a live document `id` at view `view_id` whose
\* fields are `fields`, leaving the schema id aside.
Returns(result, id, view_id, fields) ==
    /\ result.kind = "Some"
    /\ result.document.id = id
    /\ result.document.view_id = view_id
    /\ result.document.fields = DocumentFields(fields)

LiveInsertDone(t) ==
    /\ DoneOp(t, "insert_document")
    /\ task[t].result = "ok"
    /\ ~task[t].doc.deleted

\* C4 as stated: after a successful insert_document(D) of a live document,
\* get_document(D.id) returns D's id, view id, schema id and field mapping,
\* and get_document_by_view_id(D.view_id) returns the same fields.
C4_RoundTrip ==
    \A t \in Tasks :
        LiveInsertDone(t) =>
            LET d == task[t].doc
            IN  /\ Returns(get_document(d.id), d.id, d.view_id, d.fields)
                /\ get_document(d.id).document.schema_id = d.schema_id
                /\ Returns(get_document_by_view_id(d.view_id), d.id, d.view_id, d.fields)

\* C4 amended: as C4, but the schema id returned is D's only when the
\* document had no row before the call; otherwise it is the schema id that
\* row already carried.
C4_RoundTripStoredSchema ==
    \A t \in Tasks :
        LiveInsertDone(t) =>
            LET d == task[t].doc
                before == DocumentRows(task[t].pre[1], d.id)
            IN  /\ Returns(get_document(d.id), d.id, d.view_id, d.fields)
                /\ get_document(d.id).document.schema_id =
                      IF before = {} THEN d.schema_id
                      ELSE (CHOOSE r \in before : TRUE).schema_id
                /\ Returns(get_document_by_view_id(d.view_id), d.id, d.view_id, d.fields)

C4_Witness ==
    \E t \in Tasks :
        /\ LiveInsertDone(t)
        /\ \E r \in task[t].pre[1] :
              /\ r.document_id = task[t].doc.id
              /\ r.schema_id # task[t].doc.schema_id
        /\ get_document(task[t].doc.id).kind = "Some"

\* C5: when a live document has two stored views V1 and V2 and V2 is its
\* current view, get_document_by_view_id(V1) returns view id V1 with the
\* fields stored for V1, and get_document returns V2 with the fields of V2.
TwoStoredViews(d, v1, v2) ==
    /\ v1 # v2
    /\ hist.given[v1].stored /\ hist.given[v1].document_id = d
    /\ hist.given[v2].stored /\ hist.given[v2].document_id = d
    /\ \E r \in documents :
          r.document_id = d /\ r.document_view_id = v2 /\ ~r.is_deleted

C5_ViewPinning ==
    \A d \in DocumentIds, v1 \in ViewIds, v2 \in ViewIds :
        TwoStoredViews(d, v1, v2) =>
            /\ Returns(get_document_by_view_id(v1), d, v1, hist.given[v1].fields)
            /\ Returns(get_document(d), d, v2, hist.given[v2].fields)

C5_Witness ==
    \E d \in DocumentIds, v1 \in ViewIds, v2 \in ViewIds :
        /\ TwoStoredViews(d, v1, v2)
        /\ hist.given[v1].fields # hist.given[v2].fields
        /\ \A t \in Tasks : Done(t)

DeleteDone(t) == DoneOp(t, "insert_document") /\ task[t].doc.deleted

\* C6: after insert_document with deleted = true of a document that has a
\* stored view V, get_document_by_view_id(V) returns Ok(None).
C6_DeletedViewAbsent ==
    \A t \in Tasks, v \in ViewIds :
        ( /\ DeleteDone(t)
          /\ hist.given[v].stored
          /\ hist.given[v].document_id = task[t].doc.id )
            => get_document_by_view_id(v) = None

\* C7: after insert_document with deleted = true, get_document(id) returns
\* None, and so does get_document_by_view_id of the document's view id when
\* that view id has no row in document_views.
C7_DeletionErasesVisibility ==
    \A t \in Tasks :
        DeleteDone(t) =>
            /\ task[t].result = "ok"
            /\ get_document(task[t].doc.id) = None
            /\ ~ViewIdTaken(document_views, task[t].doc.view_id)
                  => get_document_by_view_id(task[t].doc.view_id) = None

C7_Witness ==
    \E t \in Tasks :
        /\ DeleteDone(t)
        /\ \E r \in task[t].pre[1] :
              r.document_id = task[t].doc.id /\ ~r.is_deleted
        /\ ~ViewIdTaken(document_views, task[t].doc.view_id)

\* C8: insert_document with deleted = true changes only the row of that
\* document in documents (current view id and is_deleted); document_views
\* and document_view_fields keep exactly the rows they had.
C8_DeleteKeepsViews ==
    \A t \in Tasks :
        DeleteDone(t) =>
            LET d == task[t].doc
                before == DocumentRows(task[t].pre[1], d.id)
            IN  /\ document_views = task[t].pre[2]
                /\ document_view_fields = task[t].pre[3]
                /\ documents \ DocumentRows(documents, d.id) = task[t].pre[1] \ before
                /\ DocumentRows(documents, d.id) =
                      { [ document_id |-> d.id, document_view_id |-> d.view_id,
                          schema_id |-> IF before = {} THEN d.schema_id
                                        ELSE (CHOOSE r \in before : TRUE).schema_id,
                          is_deleted |-> TRUE ] }

C8_Witness ==
    \E t \in Tasks :
        /\ DeleteDone(t)
        /\ \E r \in task[t].pre[2] : r.document_id = task[t].doc.id
        /\ \E r \in BagToSet(task[t].pre[3]) :
              hist.given[r.document_view_id].document_id = task[t].doc.id

\* C9: after only successful insert_document calls of live views V1..Vn for
\* a document, the document has exactly one row, get_document returns Vn
\* with its fields, and get_document_by_view_id(Vi) returns every Vi with
\* the fields it was inserted with.
OnlyLiveInserts(d) ==
    /\ hist.clean[d]
    /\ hist.chain[d] # << >>
    /\ \A t \in Tasks : Running(t) => task[t].doc.id # d

C9_UpdatesKeepHistory ==
    \A d \in DocumentIds :
        OnlyLiveInserts(d) =>
            LET chain == hist.chain[d]
                last == chain[Len(chain)]
            IN  /\ Cardinality(DocumentRows(documents, d)) = 1
                /\ Returns(get_document(d), d, last, hist.given[last].fields)
                /\ \A i \in 1..Len(chain) :
                      Returns(get_document_by_view_id(chain[i]), d, chain[i],
                              hist.given[chain[i]].fields)

C9_Witness ==
    \E d \in DocumentIds :
        /\ OnlyLiveInserts(d)
        /\ Len(hist.chain[d]) = 2
        /\ hist.given[hist.chain[d][1]].fields # hist.given[hist.chain[d][2]].fields

\* C10: a second insert_document or insert_document_view of a view that is
\* already stored with identical contents succeeds and leaves
\* document_views and document_view_fields with the same rows.
StoredIdentically(tbl, d) ==
    /\ [ document_view_id |-> d.view_id, document_id |-> d.id,
         schema_id |-> d.schema_id ] \in tbl[2]
    /\ \A r \in BagToSet(tbl[3]) \cup BagToSet(ViewFieldBag(d)) :
          r.document_view_id = d.view_id =>
              CopiesIn(r, tbl[3]) = CopiesIn(r, ViewFieldBag(d))

C10_ReinsertIdempotent ==
    \A t \in Tasks :
        ( /\ Done(t)
          /\ InsertsView(task[t].doc)
          /\ StoredIdentically(task[t].pre, task[t].doc) )
            => /\ task[t].result = "ok"
               /\ document_views = task[t].pre[2]
               /\ document_view_fields = task[t].pre[3]

\* C11: insert_document for a document id that already has a row updates
\* only that row's current view id and deleted flag to the passed values;
\* document_id and schema_id keep their stored values, and no other row of
\* documents changes.
UpsertedOver(t) ==
    /\ task[t].op = "insert_document"
    /\ task[t].pc \in {"view", "fields", "commit", "rollback", "done"}
    /\ HasDocument(task[t].pre[1], task[t].doc.id)

C11_UpsertKeepsSchema ==
    \A t \in Tasks :
        UpsertedOver(t) =>
            LET d == task[t].doc
                before == DocumentRows(task[t].pre[1], d.id)
            IN  /\ DocumentRows(documents, d.id) =
                      { [r EXCEPT !.document_view_id = d.view_id,
                                  !.is_deleted = d.deleted] : r \in before }
                /\ documents \ DocumentRows(documents, d.id) = task[t].pre[1] \ before

C11_Witness ==
    \E t \in Tasks :
        /\ UpsertedOver(t)
        /\ task[t].pc = "done"
        /\ \E r \in task[t].pre[1] :
              /\ r.document_id = task[t].doc.id
              /\ r.schema_id # task[t].doc.schema_id
              /\ r.document_view_id # task[t].doc.view_id
              /\ r.is_deleted # task[t].doc.deleted

\* C12: insert_document_view returns an error whenever the document id has
\* no row in documents and whenever a field of the view references an
\* operation that is not in operations_v1.
C12_InsertViewFails ==
    \A t \in Tasks :
        ( /\ DoneOp(t, "insert_document_view")
          /\ \/ ~HasDocument(task[t].pre[1], task[t].doc.id)
             \/ \E f \in task[t].doc.fields : ~OperationExists(f.id) )
            => task[t].result = "err"

C12_Witness ==
    \E t \in Tasks :
        /\ DoneOp(t, "insert_document_view")
        /\ ~HasDocument(task[t].pre[1], task[t].doc.id)
        /\ \A f \in task[t].doc.fields : OperationExists(f.id)
        /\ task[t].pre[1] # {}
        /\ task[t].result = "err"

\* C13: insert_document_view never changes the documents table; after it
\* stored a further view V1 of a document whose current view is V2,
\* get_document still returns view id V2 with the fields of V2.
C13_InsertViewKeepsDocuments ==
    \A t \in Tasks :
        task[t].op = "insert_document_view" =>
            /\ documents = task[t].pre[1]
            /\ \A v2 \in ViewIds :
                  ( /\ Done(t) /\ task[t].result = "ok"
                    /\ TwoStoredViews(task[t].doc.id, task[t].doc.view_id, v2) )
                      => Returns(get_document(task[t].doc.id), task[t].doc.id, v2,
                                 hist.given[v2].fields)

C13_Witness ==
    \E t \in Tasks, v2 \in ViewIds :
        /\ DoneOp(t, "insert_document_view")
        /\ task[t].result = "ok"
        /\ TwoStoredViews(task[t].doc.id, task[t].doc.view_id, v2)
        /\ hist.given[v2].fields # task[t].doc.fields

\* C14: when a call of insert_document or insert_document_view is dropped
\* before its commit, documents, document_views and document_view_fields are
\* exactly as they were before the call began.
C14_CancelLeavesTables ==
    \A t \in Tasks :
        task[t].pc = "cancelled" => tables = task[t].pre

\* C15: get_documents_by_schema(S) returns exactly the documents whose row
\* has schema S and is not deleted, each once, each with the current view id
\* of its row and the fields stored for that view; no returned document is
\* deleted, and the result is empty when no such row exists.
LiveOfSchema(schema_id) ==
    { r \in documents : r.schema_id = schema_id /\ ~r.is_deleted }

C15_SchemaListing ==
    \A schema_id \in SchemaIds :
        LET listed == get_documents_by_schema(schema_id)
        IN  /\ { x.id : x \in listed } = { r.document_id : r \in LiveOfSchema(schema_id) }
            /\ \A x, y \in listed : x.id = y.id => x = y
            /\ \A x \in listed :
                  /\ ~x.deleted
                  /\ x.schema_id = schema_id
                  /\ \E r \in LiveOfSchema(schema_id) :
                        r.document_id = x.id /\ r.document_view_id = x.view_id
                  /\ hist.given[x.view_id].stored =>
                        x.fields = DocumentFields(hist.given[x.view_id].fields)
            /\ LiveOfSchema(schema_id) = {} => listed = {}

C15_Witness ==
    \E schema_id \in SchemaIds :
        /\ \E r \in documents : r.schema_id = schema_id /\ r.is_deleted
        /\ \E x \in get_documents_by_schema(schema_id) :
              /\ hist.given[x.view_id].stored
              /\ x.fields # {}

\* C16: every row of document_views names a document id that has a row in
\* documents, whatever calls succeeded, failed or were dropped before.
C16_ViewsNameDocuments ==
    \A r \in document_views : HasDocument(documents, r.document_id)

C16_Witness ==
    /\ document_views # {}
    /\ \E t \in Tasks :
          /\ DoneOp(t, "insert_document_view")
          /\ ~HasDocument(task[t].pre[1], task[t].doc.id)
          /\ task[t].pre[2] # {}

\* C17: every row of document_view_fields names an operation that is in
\* operations_v1 and a view id that has a row in document_views.
C17_FieldsNameOperations ==
    \A r \in BagToSet(document_view_fields) :
        /\ OperationExists(r.operation_id)
        /\ ViewIdTaken(document_views, r.document_view_id)

C17_Witness ==
    /\ document_view_fields # EmptyBag
    /\ \E t \in Tasks :
          /\ Done(t)
          /\ task[t].result = "err"
          /\ \E f \in task[t].doc.fields : ~OperationExists(f.id)
          /\ document_view_fields # task[t].pre[3]

\* C18: get_document_by_view_id(V) returns None, neither an error nor a
\* panic, for every view id V that has no row in document_views.
C18_UnknownViewAbsent ==
    \A v \in ViewIds :
        ~ViewIdTaken(document_views, v) => get_document_by_view_id(v) = None

C18_Witness ==
    \E v \in ViewIds :
        /\ ~ViewIdTaken(document_views, v)
        /\ document_views # {}
        /\ \E r \in documents : r.document_view_id = v /\ ~r.is_deleted
        /\ get_document_by_view_id(v) = None

\* C19: for a stored view of a live document, every list-typed field whose
\* elements the operation stored with indices 0..k-1 is returned by
\* get_document_by_view_id, and by get_document when the view is current,
\* as the sequence of those k elements in index order.
ListTypes == {"relation_list", "pinned_relation_list"}
Elements(f) ==
    { o \in operation_fields_v1 : o.operation_id = f.id /\ o.name = f.name }
InIndexOrder(document, f) ==
    \E x \in document.fields :
        /\ x.name = f.name
        /\ x.id = f.id
        /\ Len(x.value) = Cardinality(Elements(f))
        /\ \A o \in Elements(f) : x.value[o.list_index + 1] = o.value
StoredLive(v) ==
    /\ hist.given[v].stored
    /\ \E r \in documents : r.document_id = hist.given[v].document_id /\ ~r.is_deleted
ListFields(v) ==
    { f \in hist.given[v].fields : OperationType(f.id, f.name) \in ListTypes }

C19_ListOrder ==
    \A v \in ViewIds :
        StoredLive(v) =>
            \A f \in ListFields(v) :
                /\ get_document_by_view_id(v).kind = "Some"
                /\ InIndexOrder(get_document_by_view_id(v).document, f)
                /\ \A r \in documents :
                      ( /\ r.document_id = hist.given[v].document_id
                        /\ r.document_view_id = v )
                          => /\ get_document(r.document_id).kind = "Some"
                             /\ InIndexOrder(get_document(r.document_id).document, f)

C19_Witness ==
    \E v \in ViewIds, w \in ViewIds :
        /\ v # w
        /\ StoredLive(v)
        /\ StoredLive(w)
        /\ \E r \in documents : r.document_id = hist.given[v].document_id /\ r.document_view_id = v
        /\ \E f \in ListFields(v), g \in ListFields(w) :
              /\ Cardinality(Elements(f)) = 2
              /\ Cardinality(Elements(g)) = 2
              /\ f.id # g.id
              /\ InIndexOrder(get_document(hist.given[v].document_id).document, f)
              /\ InIndexOrder(get_document_by_view_id(w).document, g)

\* C20: when insert_document_view fails because a field references an
\* operation that is not stored, the error it returns is of another kind
\* than the fatal storage error returned for a conflict on the view id or a
\* lost connection.
C20_MissingOperationDistinct ==
    \A t \in Tasks :
        ( /\ DoneOp(t, "insert_document_view")
          /\ task[t].result = "err"
          /\ HasDocument(task[t].pre[1], task[t].doc.id)
          /\ ~ViewIdTaken(task[t].pre[2], task[t].doc.view_id)
          /\ \E f \in task[t].doc.fields : ~OperationExists(f.id) )
            => task[t].error.kind # "FatalStorageError"

\* ------------------------------------------------------------- blob claims
\* What the operations of a blob declare, and what the stored pieces hold.
BlobCall(t) == Done(t) /\ task[t].op \in {"get_blob", "get_blob_by_view_id"}
Declared(k) == OperationValue(k, "pieces")
DeclaredLength(k) == OperationValue(k, "length")[1]
PieceBytes(p) == OperationValue(p, "data")[1]
\* The declared pieces of k that the query of the call of task t returned:
\* none when the query failed.
Resolved(t, k) ==
    IF task[t].query = "Err" THEN {}
    ELSE { i \in DOMAIN Declared(k) :
             Declared(k)[i] \in StoredPieces(task[t].piece_views) }
AllResolved(t, k) == Resolved(t, k) = DOMAIN Declared(k)
RECURSIVE JoinedBytes(_, _)
JoinedBytes(list, n) ==
    IF n = 0 THEN << >> ELSE JoinedBytes(list, n - 1) \o PieceBytes(list[n])
\* The statements of the call of task t found blob k stored with its view
\* and not deleted.
LiveBlob(t, k) ==
    /\ \E r \in task[t].read_docs :
          /\ r.document_id = k
          /\ r.document_view_id = k
          /\ r.schema_id = Blob
          /\ ~r.is_deleted
    /\ task[t].op \in ByViewId => ViewIdTaken(task[t].read_views, k)
    /\ \A f \in BlobDocument(k).fields : BagIn(FieldRow(k, f), task[t].read_rows)

\* The tables the query of the call of task t read hold piece p whole: its
\* view row and the row of its data field.
StoredWhole(t, p) ==
    /\ p \in StoredPieces(task[t].piece_views)
    /\ BagIn(FieldRow(p, [name |-> "data", id |-> p]), task[t].piece_rows)

\* C21: whenever get_blob or get_blob_by_view_id returns bytes, there are
\* as many bytes as the blob's length field declares; and when all declared
\* pieces are resolved but their bytes are not as many as declared (a
\* negative declared length included), the result is IncorrectLength.
C21_BlobLength ==
    \A t \in Tasks :
        BlobCall(t) =>
            LET k == task[t].arg
                r == task[t].result
            IN  /\ r.kind = "bytes" =>
                      k \in BlobIds /\ Len(r.data) = DeclaredLength(k)
                /\ ( /\ k \in BlobIds
                     /\ LiveBlob(t, k)
                     /\ AllResolved(t, k)
                     /\ Len(JoinedBytes(Declared(k), Len(Declared(k)))) # DeclaredLength(k) )
                      => r = BlobStoreError("IncorrectLength")

CaseCall(t) == Done(t) /\ task[t].op = "document_to_blob_data"
\* The number of declared pieces of a case that are stored, and the number
\* of them the query fetches.
StoredCount(c) == IF c.hi >= c.lo THEN c.hi - c.lo + 1 ELSE 0
FetchedCount(c) ==
    IF StoredCount(c) < MAX_BLOB_PIECES THEN StoredCount(c) ELSE MAX_BLOB_PIECES

\* C23 as stated: the result is MissingPieces exactly when at least one and
\* fewer than all of the declared pieces are stored.
C23_MissingPieces ==
    \A t \in Tasks :
        CaseCall(t) =>
            ( task[t].result = BlobStoreError("MissingPieces")
                <=> ( /\ StoredCount(task[t].arg) >= 1
                      /\ StoredCount(task[t].arg) < task[t].arg.pieces ) )

\* C23 amended: the result is MissingPieces exactly when at least one and
\* fewer than all of the declared pieces are fetched, where the query
\* fetches the stored ones up to MAX_BLOB_PIECES; a blob of more pieces gets
\* MissingPieces although every declared piece is stored.
C23_MissingPiecesFetched ==
    \A t \in Tasks :
        CaseCall(t) =>
            ( task[t].result = BlobStoreError("MissingPieces")
                <=> ( /\ FetchedCount(task[t].arg) >= 1
                      /\ FetchedCount(task[t].arg) < task[t].arg.pieces ) )

C23_Witness ==
    \E t \in Tasks :
        /\ CaseCall(t)
        /\ task[t].arg.pieces > MAX_BLOB_PIECES
        /\ StoredCount(task[t].arg) = task[t].arg.pieces
        /\ task[t].result = BlobStoreError("MissingPieces")

\* C24: the result is NoBlobPiecesFound whenever no piece is resolved for
\* the blob, whatever its pieces list declares, also when the list is empty
\* and the declared length is 0.
C24_NoBlobPiecesFound ==
    \A t \in Tasks :
        (CaseCall(t) /\ StoredCount(task[t].arg) = 0)
            => task[t].result = BlobStoreError("NoBlobPiecesFound")

C24_Witness ==
    \E t \in Tasks :
        /\ CaseCall(t)
        /\ task[t].arg.pieces = 0
        /\ task[t].arg.length = 0
        /\ task[t].result = BlobStoreError("NoBlobPiecesFound")

\* -------------------------------------------------------- blob getters' claims
\* The root document the blob call of task t loaded: what get_document or
\* get_document_by_view_id returns from the tables its statements read.
RootDocument(t) ==
    IF task[t].op = "get_blob"
    THEN get_document_from(task[t].read_docs, task[t].read_rows, task[t].arg)
    ELSE get_document_by_view_id_from(task[t].read_views, task[t].read_docs,
                                      task[t].read_rows, task[t].arg)

\* C25: get_blob(id) returns absent exactly when get_document(id) does, and
\* get_blob_by_view_id(V) exactly when get_document_by_view_id(V) does; for a
\* document that is found the result is bytes or an error.
C25_AbsentIffNoDocument ==
    \A t \in Tasks :
        BlobCall(t) =>
            /\ task[t].result.kind = "None" <=> RootDocument(t).kind = "None"
            /\ RootDocument(t).kind = "Some" =>
                   task[t].result.kind \in {"bytes", "error", "DocumentStorageError"}

\* C26: for every found document whose schema id is not blob_v1 the blob
\* getters return NotBlobDocument, whatever fields the document has and
\* whatever pieces are stored.
C26_NotBlobDocument ==
    \A t \in Tasks :
        ( /\ BlobCall(t)
          /\ RootDocument(t).kind = "Some"
          /\ RootDocument(t).document.schema_id # Blob )
            => task[t].result = BlobStoreError("NotBlobDocument")

C26_Witness ==
    \E t \in Tasks :
        /\ BlobCall(t)
        /\ task[t].arg \in PieceIds
        /\ RootDocument(t).kind = "Some"
        /\ ~HasField(RootDocument(t).document, "length", "int")
        /\ task[t].result = BlobStoreError("NotBlobDocument")

\* C27: a blob that declares more than MAX_BLOB_PIECES pieces never gets
\* bytes: the result is an error also when every declared piece is stored
\* and the declared length is that of their data.
C27_TooManyPieces ==
    \A t \in Tasks :
        (CaseCall(t) /\ task[t].arg.pieces > MAX_BLOB_PIECES)
            => task[t].result.kind = "error"

C27_Witness ==
    \E t \in Tasks :
        /\ CaseCall(t)
        /\ task[t].arg.pieces = MAX_BLOB_PIECES + 1
        /\ task[t].arg.lo = 1
        /\ task[t].arg.hi = task[t].arg.pieces
        /\ task[t].arg.length = Bytes(task[t].arg.pieces)
        /\ task[t].result.kind = "error"

\* C28: for a blob document that is not deleted and whose current view is V,
\* get_blob(document id) and get_blob_by_view_id(V) give the same result.
C28_SameByIdAndView ==
    \A r \in documents, query \in QueryAnswers :
        (r.schema_id = Blob /\ ~r.is_deleted)
            => get_blob(query, r.document_id)
                   = get_blob_by_view_id(query, r.document_view_id)

\* ---------------------------------------------------------- nextArgs claims
\* The value the query gives the argument `name`, Null when it gives none.
ArgumentValue(args, name) ==
    IF \E i \in DOMAIN args : args[i].name = name
    THEN args[CHOOSE i \in DOMAIN args : args[i].name = name].value
    ELSE Null

\* C30: a nextArgs query whose publicKey is not a valid public key gets an
\* error and no next arguments are computed; with a valid publicKey, a
\* viewId that is omitted or null is treated as no document view id.
C30_ArgumentsParsed ==
    \A t \in Tasks :
        DoneOp(t, "nextArgs") =>
            LET publicKey == ArgumentValue(task[t].arg, "publicKey")
                viewId == ArgumentValue(task[t].arg, "viewId")
                valid == publicKey.type = "String" /\ publicKey.text \in PublicKeys
            IN  /\ ~valid => task[t].result.kind = "error"
                /\ (valid /\ viewId = Null)
                      => task[t].result = NextArgsOf(publicKey.text, NoViewId)

\* ------------------------------------------------------------- pool claims
\* C31: every insert_document and insert_document_view call that was
\* started eventually returns, whatever the size of the pool, when the
\* backend answers every statement.
C31_CallsReturn == \A t \in Tasks : Running(t) ~> ~Running(t)

\* ------------------------------------------------- claims on stored state
Quiescent == \A t \in Tasks : ~Running(t)
ViewStoredFor(r) ==
    \E v \in document_views :
        /\ v.document_view_id = r.document_view_id
        /\ v.document_id = r.document_id

\* C32: between calls, also after calls that failed, the current view id of
\* every documents row that is not deleted has a document_views row of that
\* same document, so get_document returns no document whose view is not
\* stored.
C32_CurrentViewStored ==
    Quiescent =>
        /\ \A r \in documents : ~r.is_deleted => ViewStoredFor(r)
        /\ \A id \in DocumentIds :
               get_document(id).kind = "Some" =>
                   \E v \in document_views :
                       /\ v.document_view_id = get_document(id).document.view_id
                       /\ v.document_id = id

\* The tables after every sub-insert of the call of task t has succeeded.
AllSubInserts(t) ==
    LET d == task[t].doc
        pre == task[t].pre
    IN  IF task[t].op = "insert_document"
        THEN IF InsertsView(d)
             THEN << UpsertDocument(pre[1], d), InsertView(pre[2], d),
                     pre[3] (+) ViewFieldBag(d) >>
             ELSE << UpsertDocument(pre[1], d), pre[2], pre[3] >>
        ELSE << pre[1], InsertView(pre[2], d), pre[3] (+) ViewFieldBag(d) >>
InsertCall(t) == task[t].op \in {"insert_document", "insert_document_view"}

\* A call reaches its commit, and returns Ok, only when all its sub-inserts
\* have succeeded; a call that returns Err returns a sub-insert's error.
CommitsAfterAll ==
    \A t \in Tasks :
        InsertCall(t) =>
            /\ (task[t].pc = "commit" \/ (Done(t) /\ task[t].result = "ok"))
                  => (task[t].error = NoError /\ tables = AllSubInserts(t))
            /\ (Done(t) /\ task[t].result = "err")
                  => task[t].error.kind = "FatalStorageError"
\* The step of a failing sub-insert leads to the rollback with that error;
\* from there no statement runs and the call returns that error; a call
\* returns only out of its commit or its rollback.
RollsBackOnFirstFailure ==
    \A t \in Tasks :
        /\ (task[t].pc \in {"upsert", "view", "fields"} /\ task'[t].pc = "rollback")
              => /\ tables' = tables
                 /\ task[t].error = NoError
                 /\ task'[t].error.kind = "FatalStorageError"
        /\ task[t].pc = "rollback"
              => /\ tables' = tables
                 /\ task'[t].pc \in {"done", "cancelled"}
                 /\ task'[t].pc = "done"
                       => (task'[t].result = "err" /\ task'[t].error = task[t].error)
        /\ (Running(t) /\ task'[t].pc = "done")
              => \/ task[t].pc = "commit" /\ task'[t].result = "ok"
                 \/ task[t].pc = "rollback" /\ task'[t].result = "err"

FieldRowsOf(v) ==
    LET mine == { r \in BagToSet(document_view_fields) : r.document_view_id = v }
    IN  [ r \in mine |-> CopiesIn(r, document_view_fields) ]
\* Scalar fields plus list elements of a set of fields.
RECURSIVE ElementCount(_)
ElementCount(fields) ==
    IF fields = {} THEN 0
    ELSE LET f == CHOOSE x \in fields : TRUE
         IN  Cardinality(Elements(f)) + ElementCount(fields \ {f})
\* The call of task t has stored a view with all its fields.
ViewInserted(t) ==
    /\ Done(t)
    /\ InsertCall(t)
    /\ task[t].result = "ok"
    /\ InsertsView(task[t].doc)

\* C34 as stated: document_view_fields holds, for an inserted view, one row
\* per scalar field and k rows per list field of k elements.
C34_RowPerElement ==
    \A t \in Tasks :
        ViewInserted(t) =>
            BagCardinality(FieldRowsOf(task[t].doc.view_id))
                = ElementCount(task[t].doc.fields)

\* ---------------------------------------------------- claims on view rows
\* The view id of the call of task t was stored, before the call, under
\* another document id or another schema id.
OwnedByAnother(t) ==
    \E r \in task[t].pre[2] :
        /\ r.document_view_id = task[t].doc.view_id
        /\ (r.document_id # task[t].doc.id \/ r.schema_id # task[t].doc.schema_id)
FieldRowsIn(rows, v) ==
    LET mine == { r \in BagToSet(rows) : r.document_view_id = v }
    IN  [ r \in mine |-> CopiesIn(r, rows) ]
\* document_views holds one row per view id; a call that inserts a view whose
\* id another document or schema owns fails and leaves the view rows and the
\* field rows of that view as they were.
OneOwner ==
    /\ \A r, q \in document_views : r.document_view_id = q.document_view_id => r = q
    /\ \A t \in Tasks :
           (Done(t) /\ InsertCall(t) /\ InsertsView(task[t].doc) /\ OwnedByAnother(t))
               => /\ task[t].result = "err"
                  /\ document_views = task[t].pre[2]
                  /\ FieldRowsIn(document_view_fields, task[t].doc.view_id)
                         = FieldRowsIn(task[t].pre[3], task[t].doc.view_id)
\* No statement removes or rewrites a row of document_views.
ViewRowsKept == document_views \subseteq document_views'

\* C35: a view id has at most one document_views row for the whole life of
\* the store: an insert_document or insert_document_view call that inserts
\* a view whose id is stored under another document id or schema id fails,
\* and the stored view row keeps its document id, its schema id and its
\* field rows.
C35_OneOwnerPerView == []OneOwner /\ [][ViewRowsKept]_vars
\* Such a call has failed on a view that has field rows.
C35_Witness ==
    \E t \in Tasks :
        /\ DoneOp(t, "insert_document")
        /\ InsertsView(task[t].doc)
        /\ \E r \in task[t].pre[2] :
               r.document_view_id = task[t].doc.view_id /\ r.document_id # task[t].doc.id
        /\ task[t].result = "err"
        /\ FieldRowsIn(document_view_fields, task[t].doc.view_id) # EmptyBag

\* C36: the schema id of every document_views row is the schema id of the
\* documents row of its document, so the schema id that
\* get_document_by_view_id reports is the one the view was inserted with.
C36_ViewSchemaIsDocumentSchema ==
    /\ \A v \in document_views, r \in documents :
           r.document_id = v.document_id => v.schema_id = r.schema_id
    /\ \A v \in document_views :
           get_document_by_view_id(v.document_view_id).kind = "Some" =>
               get_document_by_view_id(v.document_view_id).document.schema_id = v.schema_id

\* ------------------------------------------------- claims on updated blobs
\* V is a stored view of a live blob document whose current view is another.
NonCurrentBlobView(t, v) ==
    \E r \in task[t].read_docs, w \in task[t].read_views :
        /\ w.document_view_id = v
        /\ w.document_id = r.document_id
        /\ r.schema_id = Blob
        /\ ~r.is_deleted
        /\ r.document_view_id # v
\* The outcome for the pieces list and the length that view v declares, with
\* the pieces that the query of the call of task t found.
OutcomeOf(t, v) ==
    LET joined == JoinedBytes(Declared(v), Len(Declared(v)))
    IN  IF Resolved(t, v) = {} THEN BlobStoreError("NoBlobPiecesFound")
        ELSE IF ~AllResolved(t, v) THEN BlobStoreError("MissingPieces")
        ELSE IF Len(joined) # DeclaredLength(v) THEN BlobStoreError("IncorrectLength")
        ELSE BlobData(joined)
CurrentViewOf(t, v) ==
    (CHOOSE r \in task[t].read_docs :
        \E w \in task[t].read_views :
            w.document_view_id = v /\ w.document_id = r.document_id).document_view_id

\* What document_to_blob_data makes of the pieces list and the length that
\* view v declares, with what the query of the call of task t returned: the
\* failure of the query, the outcome of the counts, the panic on a returned
\* piece that has no row of its data field, the outcome of the length.
AssembledOf(t, v) ==
    LET joined == JoinedBytes(Declared(v), Len(Declared(v)))
    IN  IF task[t].query = "Err" THEN DocumentStorageError(QueryFailed)
        ELSE IF Resolved(t, v) = {} THEN BlobStoreError("NoBlobPiecesFound")
        ELSE IF ~AllResolved(t, v) THEN BlobStoreError("MissingPieces")
        ELSE IF \E i \in DOMAIN Declared(v) : ~StoredWhole(t, Declared(v)[i]) THEN Panic
        ELSE IF Len(joined) # DeclaredLength(v) THEN BlobStoreError("IncorrectLength")
        ELSE BlobData(joined)

AddressedRows(t) ==
    IF task[t].op = "get_blob"
    THEN { r \in task[t].read_docs : r.document_id = task[t].arg /\ ~r.is_deleted }
    ELSE { r \in task[t].read_docs :
             /\ ~r.is_deleted
             /\ \E w \in task[t].read_views :
                    w.document_view_id = task[t].arg /\ w.document_id = r.document_id }
AddressedView(t) ==
    IF task[t].op = "get_blob"
    THEN (CHOOSE r \in AddressedRows(t) : TRUE).document_view_id
    ELSE task[t].arg
\* The outcome the stated precedence gives the blob call of task t.
Precedence(t) ==
    IF AddressedRows(t) = {} THEN None
    ELSE IF (CHOOSE r \in AddressedRows(t) : TRUE).schema_id # Blob
    THEN BlobStoreError("NotBlobDocument")
    ELSE OutcomeOf(t, AddressedView(t))

\* C38: every blob getter call yields one outcome in a fixed precedence:
\* absent when the document is not found, else NotBlobDocument when its
\* schema is not blob_v1, else NoBlobPiecesFound, MissingPieces,
\* IncorrectLength or the bytes, in that order; and no step of the call
\* changes the tables.
C38_OutcomePrecedence ==
    /\ [](\A t \in Tasks : BlobCall(t) => task[t].result = Precedence(t))
    /\ [][(\E t \in Tasks : task'[t] # task[t]) => tables' = tables]_vars

====
